---- MODULE Spec2Model ----
(***************************************************************************)
(* Model of the conversational tool-invocation engine of the Oracle        *)
(* LiveKit plug-ins: OracleLLM.run with its two back ends (the stateless   *)
(* chat completion of run_for_llm and the session chat of run_for_agent),  *)
(* the TOOL-CALL text protocol, call_tool and parse_function_call.         *)
(*                                                                         *)
(* Python strings are modelled as sequences of one-character strings, so   *)
(* that `in`, find, slicing, strip and the expression parser work on the   *)
(* characters as the code does.                                            *)
(***************************************************************************)
EXTENDS Integers, Sequences, FiniteSets, TLC

(***************************************************************************)
(* Bounds of the model.                                                    *)
(***************************************************************************)
\* run() calls made on one OracleLLM instance
MaxRuns == 2
\* tool callables executed within one run() (the loop itself has no cap)
MaxCalls == 2

(***************************************************************************)
(* Program constants (oracle_llm.py, lines 29-40).                         *)
(***************************************************************************)
BACK_END_GEN_AI_LLM == "llm"
BACK_END_GEN_AI_AGENT == "agent"
CONTENT_TYPE_STRING == "string"
ROLE_USER == "user"
ROLE_SYSTEM == "system"
ROLE_ASSISTANT == "assistant"
TOOL_CALL_PREFIX ==
    <<"T","O","O","L","-","C","A","L","L",":">>
TOOL_CALL_DESCRIPTION ==
    <<"t","o","o","l","-","c","a","l","l">>

(***************************************************************************)
(* Python str operations.                                                  *)
(***************************************************************************)
Whitespace == {" ", "\t", "\n", "\r"}
Digits == {"0", "1", "2", "3", "4", "5", "6", "7", "8", "9"}
NameStart ==
    {"a", "b", "c", "d", "e", "f", "g", "h", "i", "j", "k", "l", "m", "n", "o", "p",
     "q", "r", "s", "t", "u", "v", "w", "x", "y", "z", "A", "B", "C", "D", "E", "F",
     "G", "H", "I", "J", "K", "L", "M", "N", "O", "P", "Q", "R", "S", "T", "U", "V",
     "W", "X", "Y", "Z", "_"}
NameChar == NameStart \cup Digits

\* s[n:] for n >= 0
SliceFrom(s, n) == SubSeq(s, n + 1, Len(s))

\* s.startswith(p)
startswith(s, p) == Len(p) <= Len(s) /\ SubSeq(s, 1, Len(p)) = p

\* p occurs in s at the 0-based index i
OccursAt(s, p, i) == i >= 0 /\ i + Len(p) <= Len(s) /\ SubSeq(s, i + 1, i + Len(p)) = p

\* s.find(p, start): the lowest 0-based index >= start where p occurs, or -1
find(s, p, start) ==
    LET hits == {i \in start..(Len(s) - Len(p)) : OccursAt(s, p, i)}
    IN  IF hits = {} THEN -1 ELSE CHOOSE i \in hits : \A j \in hits : i <= j

\* p in s
contains(s, p) == find(s, p, 0) # -1

\* the number of (non-overlapping) occurrences of p in s: s.count(p)
RECURSIVE count(_, _)
count(s, p) ==
    LET i == find(s, p, 0)
    IN  IF i = -1 THEN 0 ELSE 1 + count(SliceFrom(s, i + Len(p)), p)

RECURSIVE lstrip(_)
lstrip(s) == IF s # <<>> /\ Head(s) \in Whitespace THEN lstrip(Tail(s)) ELSE s

RECURSIVE rstrip(_)
rstrip(s) ==
    IF s # <<>> /\ s[Len(s)] \in Whitespace THEN rstrip(SubSeq(s, 1, Len(s) - 1)) ELSE s

\* s.strip()
strip(s) == rstrip(lstrip(s))

DigitValue(c) ==
    CASE c = "0" -> 0 [] c = "1" -> 1 [] c = "2" -> 2 [] c = "3" -> 3 [] c = "4" -> 4
      [] c = "5" -> 5 [] c = "6" -> 6 [] c = "7" -> 7 [] c = "8" -> 8 [] c = "9" -> 9

DigitChar(d) ==
    CASE d = 0 -> "0" [] d = 1 -> "1" [] d = 2 -> "2" [] d = 3 -> "3" [] d = 4 -> "4"
      [] d = 5 -> "5" [] d = 6 -> "6" [] d = 7 -> "7" [] d = 8 -> "8" [] d = 9 -> "9"

\* int(digits) for a non-empty run of decimal digits
RECURSIVE DecimalValue(_)
DecimalValue(ds) ==
    IF ds = <<>> THEN 0
    ELSE 10 * DecimalValue(SubSeq(ds, 1, Len(ds) - 1)) + DigitValue(ds[Len(ds)])

\* str(n) for an int n
RECURSIVE NatToText(_)
NatToText(n) == IF n < 10 THEN <<DigitChar(n)>> ELSE NatToText(n \div 10) \o <<DigitChar(n % 10)>>

IntToText(n) == IF n < 0 THEN <<"-">> \o NatToText(0 - n) ELSE NatToText(n)

(***************************************************************************)
(* ast.parse(code_string, mode = "eval").body and ast.literal_eval, for    *)
(* the fragment of Python expressions the model's texts are written in:    *)
(*     expr    ::= unary ( "+" unary )*                                    *)
(*     unary   ::= "-" unary | postfix                                     *)
(*     postfix ::= atom ( "(" arguments ")" | "." NAME )*                  *)
(*     atom    ::= NAME | INTEGER | STRING                                 *)
(*     arguments ::= [ argument ( "," argument )* [ "," ] ]                *)
(*     argument  ::= NAME "=" expr | expr                                  *)
(* with blanks allowed between tokens.  NAME is [A-Za-z_][A-Za-z0-9_]*,     *)
(* INTEGER a run of decimal digits, STRING a double-quoted string without  *)
(* escapes.  Text outside the fragment (floats, brackets, other operators, *)
(* reserved words) is not used by the model's inputs.  Whatever is not an  *)
(* expression of the fragment followed by the end of the text is a         *)
(* SyntaxError, as it is in Python for the texts used.                     *)
(*                                                                         *)
(* An AST node is a record with a "type" field named as the ast classes.   *)
(* A Python value is [kind, i, s]: kind "int" with i, kind "str" with s,   *)
(* kind "bool" with i in {0, 1}, kind "none".                              *)
(***************************************************************************)
IntValue(n) == [kind |-> "int", i |-> n, s |-> <<>>]
StrValue(t) == [kind |-> "str", i |-> 0, s |-> t]
BoolValue(b) == [kind |-> "bool", i |-> IF b THEN 1 ELSE 0, s |-> <<>>]
NoneValue == [kind |-> "none", i |-> 0, s |-> <<>>]

NoNode == [type |-> "None"]
ConstantNode(v) == [type |-> "Constant", value |-> v]
NameNode(id) == [type |-> "Name", id |-> id]
TrueText ==
    <<"T","r","u","e">>
FalseText ==
    <<"F","a","l","s","e">>
NoneText ==
    <<"N","o","n","e">>

ParseFail == [ok |-> FALSE, node |-> NoNode, rest |-> <<>>]
ParseOk(node, rest) == [ok |-> TRUE, node |-> node, rest |-> rest]

\* the length of the longest prefix of s made of characters of S
RECURSIVE PrefixLen(_, _)
PrefixLen(s, S) == IF s # <<>> /\ Head(s) \in S THEN 1 + PrefixLen(Tail(s), S) ELSE 0

ParseName(s) ==
    LET n == PrefixLen(s, NameChar)
        id == SubSeq(s, 1, n)
        node == IF id = TrueText THEN ConstantNode(BoolValue(TRUE))
                ELSE IF id = FalseText THEN ConstantNode(BoolValue(FALSE))
                ELSE IF id = NoneText THEN ConstantNode(NoneValue)
                ELSE NameNode(id)
    IN  ParseOk(node, SliceFrom(s, n))

ParseInteger(s) ==
    LET n == PrefixLen(s, Digits)
        ds == SubSeq(s, 1, n)
        rest == SliceFrom(s, n)
    IN  IF rest # <<>> /\ Head(rest) \in NameStart \cup {"."} THEN ParseFail
        ELSE IF n > 1 /\ Head(ds) = "0" /\ DecimalValue(ds) # 0 THEN ParseFail
        ELSE ParseOk(ConstantNode(IntValue(DecimalValue(ds))), rest)

ParseString(s) ==
    LET body == Tail(s)
        close == find(body, <<"\"">>, 0)
        text == SubSeq(body, 1, close)
    IN  IF close = -1 \/ contains(text, <<"\n">>) \/ contains(text, <<"\\">>) THEN ParseFail
        ELSE ParseOk(ConstantNode(StrValue(text)), SliceFrom(body, close + 1))

ParseAtom(s) ==
    IF s = <<>> THEN ParseFail
    ELSE IF Head(s) \in NameStart THEN ParseName(s)
    ELSE IF Head(s) \in Digits THEN ParseInteger(s)
    ELSE IF Head(s) = "\"" THEN ParseString(s)
    ELSE ParseFail

RECURSIVE ParseExpr(_)
RECURSIVE ParseSum(_, _)
RECURSIVE ParseUnary(_)
RECURSIVE ParseTrailers(_, _)
RECURSIVE ParseArguments(_, _, _)

\* s starts with NAME "=" (and not "=="): a keyword argument
IsKeywordArgument(s) ==
    LET afterName == lstrip(SliceFrom(s, PrefixLen(s, NameChar)))
    IN  /\ Head(s) \in NameStart
        /\ afterName # <<>> /\ Head(afterName) = "="
        /\ ~ startswith(afterName, <<"=", "=">>)

\* the text of the value of the keyword argument s starts with
KeywordValueText(s) == lstrip(Tail(lstrip(SliceFrom(s, PrefixLen(s, NameChar)))))

\* after the argument e (named name when isKeyword): "," and more arguments, or ")"
AfterArgument(e, isKeyword, name, args, keywords) ==
    LET rest == lstrip(e.rest)
        args2 == IF isKeyword THEN args ELSE Append(args, e.node)
        keywords2 == IF isKeyword THEN Append(keywords, [arg |-> name, value |-> e.node])
                     ELSE keywords
    IN  IF ~ e.ok THEN ParseFail
        \* a positional argument may not follow a keyword argument
        ELSE IF ~ isKeyword /\ keywords # <<>> THEN ParseFail
        ELSE IF rest = <<>> \/ Head(rest) \notin {",", ")"} THEN ParseFail
        ELSE ParseArguments(IF Head(rest) = "," THEN lstrip(Tail(rest)) ELSE rest,
                            args2, keywords2)

\* the arguments of a call, from after "(" or after a ","; node holds args and keywords
ParseArguments(s, args, keywords) ==
    IF s = <<>> THEN ParseFail
    ELSE IF Head(s) = ")" THEN
        ParseOk([type |-> "Arguments", args |-> args, keywords |-> keywords], Tail(s))
    ELSE AfterArgument(ParseExpr(IF IsKeywordArgument(s) THEN KeywordValueText(s) ELSE s),
                       IsKeywordArgument(s), SubSeq(s, 1, PrefixLen(s, NameChar)),
                       args, keywords)

\* after the arguments a of a call of node
AfterArguments(node, a) ==
    IF ~ a.ok THEN ParseFail
    ELSE ParseTrailers([type |-> "Call", func |-> node, args |-> a.node.args,
                        keywords |-> a.node.keywords], lstrip(a.rest))

\* after the "." of an attribute reference on node
AfterDot(node, t) ==
    IF t = <<>> \/ Head(t) \notin NameStart THEN ParseFail
    ELSE ParseTrailers([type |-> "Attribute", value |-> node,
                        attr |-> SubSeq(t, 1, PrefixLen(t, NameChar))],
                       lstrip(SliceFrom(t, PrefixLen(t, NameChar))))

ParseTrailers(node, s) ==
    IF s # <<>> /\ Head(s) = "("
    THEN AfterArguments(node, ParseArguments(lstrip(Tail(s)), <<>>, <<>>))
    ELSE IF s # <<>> /\ Head(s) = "." THEN AfterDot(node, lstrip(Tail(s)))
    ELSE ParseOk(node, s)

Negated(r) ==
    IF ~ r.ok THEN ParseFail
    ELSE ParseOk([type |-> "UnaryOp", op |-> "USub", operand |-> r.node], r.rest)

AfterAtom(a) == IF ~ a.ok THEN ParseFail ELSE ParseTrailers(a.node, lstrip(a.rest))

ParseUnary(s) ==
    IF s # <<>> /\ Head(s) = "-" THEN Negated(ParseUnary(lstrip(Tail(s))))
    ELSE AfterAtom(ParseAtom(s))

AfterSummand(left, op, r) ==
    IF ~ r.ok THEN ParseFail
    ELSE ParseSum([type |-> "BinOp", left |-> left, op |-> op, right |-> r.node],
                  lstrip(r.rest))

ParseSum(left, s) ==
    IF s # <<>> /\ Head(s) \in {"+", "-"}
    THEN AfterSummand(left, IF Head(s) = "+" THEN "Add" ELSE "Sub",
                      ParseUnary(lstrip(Tail(s))))
    ELSE ParseOk(left, s)

AfterUnary(l) == IF ~ l.ok THEN ParseFail ELSE ParseSum(l.node, lstrip(l.rest))

ParseExpr(s) == AfterUnary(ParseUnary(s))

\* the expression must be the whole text
WholeText(e) == IF e.ok /\ lstrip(e.rest) = <<>> THEN e ELSE ParseFail

\* ast.parse(code_string, mode = "eval"): ok with .node the body, or not ok (SyntaxError)
ast_parse(code_string) == WholeText(ParseExpr(lstrip(code_string)))

\* ast.literal_eval(node): ok with .value, or not ok (ValueError: malformed node or string)
literal_eval(node) ==
    IF node.type = "Constant" THEN [ok |-> TRUE, value |-> node.value]
    ELSE IF /\ node.type = "UnaryOp"
            /\ node.operand.type = "Constant"
            /\ node.operand.value.kind = "int"
    THEN [ok |-> TRUE, value |-> IntValue(0 - node.operand.value.i)]
    ELSE [ok |-> FALSE, value |-> NoneValue]

\* str(value)
str(value) ==
    CASE value.kind = "int" -> IntToText(value.i)
      [] value.kind = "str" -> value.s
      [] value.kind = "bool" -> IF value.i = 1 THEN TrueText ELSE FalseText
      [] value.kind = "none" -> NoneText

(***************************************************************************)
(* Errors.  A Python exception is [type, message]; the message of the      *)
(* exceptions the interpreter raises itself (SyntaxError, ValueError,      *)
(* TypeError) is not modelled.                                             *)
(***************************************************************************)
NoError == [type |-> "None", message |-> <<>>]
Raised(type, message) == [type |-> type, message |-> message]

\* oracle_llm.py, lines 256 and 322
EmbeddedError == Raised("Exception",<<"U","n","e","x","p","e","c","t","e","d","l","y"," ",
      "r","e","c","e","i","v","e","d"," ","a"," ","r","e","s","p","o","n","s","e"," ","m",
      "e","s","s","a","g","e"," ","w","i","t","h"," ","a","n"," ","e","m","b","e","d","d",
      "e","d"," ">> \o TOOL_CALL_DESCRIPTION \o <<".">>)
\* oracle_llm.py, line 260
NumberError == Raised("Exception",<<"U","n","e","x","p","e","c","t","e","d"," ","n","u",
      "m","b","e","r"," ","o","f"," ","r","e","s","p","o","n","s","e"," ","m","e","s","s",
      "a","g","e","s"," ","f","o","r"," ","a"," ">> \o TOOL_CALL_DESCRIPTION \o <<".">>)
\* oracle_llm.py, lines 398 and 402
InvalidError(description, code_string) ==
    Raised("Exception",<<"I","n","v","a","l","i","d"," ">> \o description \o <<":",
          " ">> \o code_string \o <<".">>)
\* oracle_llm.py, line 382
UnknownError(function_name, original_tool_call) ==
    Raised("Exception",<<"U","n","k","n","o","w","n"," ","f","u","n","c","t","i","o","n",
          " ","n","a","m","e",":"," ">> \o function_name \o <<" ","i","n",
          " ">> \o TOOL_CALL_DESCRIPTION
                        \o <<" ","r","e","s","p","o","n","s","e"," ","m","e","s","s","a",
                              "g","e",":"," ">> \o original_tool_call \o <<".">>)
\* the result statement of oracle_llm.py, lines 277 and 331
ResultStatement(response_message, result) ==
    <<"T","h","e"," ","f","u","n","c","t","i","o","n"," ","r","e","s","u","l","t"," ","o",
          "f"," ">> \o response_message \o <<" ","i","s",":"," ">> \o result

(***************************************************************************)
(* Data model (oracle_llm.py, lines 437-468).                              *)
(***************************************************************************)
OracleLLMContent(content_data, content_type, role) ==
    [content_data |-> content_data, content_type |-> content_type, role |-> role]
OracleValue(name, description, type) ==
    [name |-> name, description |-> description, type |-> type]
OracleTool(name, description, function, parameters) ==
    [name |-> name, description |-> description, function |-> function,
     parameters |-> parameters]

\* The tools argument: None, or a list of OracleTool.
NoTools == [is_none |-> TRUE, list |-> <<>>]
ToolList(list) == [is_none |-> FALSE, list |-> list]

(***************************************************************************)
(* get_tool_descriptions (oracle_llm.py, lines 341-365).                   *)
(***************************************************************************)

\* A variant of lines 353-357 that separates the names by a comma and a space.
\* C22 must tell it from the code.
RECURSIVE ParameterNames_Spaced(_, _)
ParameterNames_Spaced(parameters, j) ==
    IF j > Len(parameters) THEN <<>>
    ELSE (IF j > 1 THEN <<",", " ">> ELSE <<>>) \o parameters[j].name
         \o ParameterNames_Spaced(parameters, j + 1)

\* the parameter names j..n of a tool, comma separated (lines 353-357)
RECURSIVE ParameterNames(_, _)
ParameterNames(parameters, j) ==
    IF j > Len(parameters) THEN <<>>
    ELSE (IF j > 1 THEN <<",">> ELSE <<>>) \o parameters[j].name
         \o ParameterNames(parameters, j + 1)

\* the numbered lines of the tools i..n (lines 348-359)
RECURSIVE ToolLines(_, _)
ToolLines(list, i) ==
    IF i > Len(list) THEN <<>>
    ELSE IntToText(i) \o <<"."," ","T","h","e"," ","f","u","n","c","t","i","o","n"," ",
          "p","r","o","t","o","t","y","p","e"," ","i","s",":",
          " ">> \o list[i].name \o <<"(">>
         \o ParameterNames(list[i].parameters, 1)
         \o <<")"," ","a","n","d"," ","t","h","e"," ","f","u","n","c","t","i","o","n"," ",
               "d","e","s","c","r","i","p","t","i","o","n"," ","i","s",":",
               " ">> \o list[i].description \o <<"\n">>
         \o ToolLines(list, i + 1)

\* lines 345-363: the text for a registry that is not empty
ToolDescriptionsText(list) ==
    <<"Y","o","u"," ","a","r","e"," ","a","n"," ","a","s","s","i","s","t",
          "a","n","t"," ","w","i","t","h"," ","a","c","c","e","s","s"," ","t","o",
          " ","t","h","e"," ","f","o","l","l","o","w","i","n","g"," ","f","u","n",
          "c","t","i","o","n","s",":","\n","\n">> \o ToolLines(list, 1)
             \o <<"\n","A","l","w","a","y","s"," ","i","n","d","i","c","a","t","e",
                   " ","w","h","e","n"," ","y","o","u"," ","w","a","n","t"," ","t",
                   "o"," ","c","a","l","l"," ","a"," ","f","u","n","c","t","i","o",
                   "n"," ","b","y"," ","w","r","i","t","i","n","g",":"," ",
                   "\"">> \o TOOL_CALL_PREFIX \o <<" ","f","u","n","c","t","i","o",
                   "n","_","n","a","m","e","(","p","a","r","a","m","e","t","e","r",
                   "s",")","\"","\n">>
             \o <<"D","o"," ","n","o","t"," ","c","o","m","b","i","n","e"," ","f",
                   "u","n","c","t","i","o","n"," ","c","a","l","l","s"," ","a","n",
                   "d"," ","t","e","x","t"," ","r","e","s","p","o","n","s","e","s",
                   " ","i","n"," ","t","h","e"," ","s","a","m","e"," ","o","u","t",
                   "p","u","t",":"," ","e","i","t","h","e","r"," ","o","n","l","y",
                   " ","f","u","n","c","t","i","o","n"," ","c","a","l","l","s"," ",
                   "o","r"," ","o","n","l","y"," ","t","e","x","t"," ","r","e","s",
                   "p","o","n","s","e","s",".","\n">> \o <<"F","o","r"," ","a","n",
                   "y"," ","s","t","r","i","n","g"," ","p","a","r","a","m","e","t",
                   "e","r","s",","," ","b","e"," ","s","u","r","e"," ","t","o"," ",
                   "e","n","c","l","o","s","e"," ","e","a","c","h"," ","o","f"," ",
                   "t","h","e","m"," ","i","n"," ","d","o","u","b","l","e"," ","q",
                   "u","o","t","e","s",".">>

\* A variant of line 342 without the test of the length: an empty list gets the
\* text with no tool line.  C21 must tell it from the code.
get_tool_descriptions_NoLengthTest(tools) ==
    IF tools.is_none THEN [is_none |-> TRUE, text |-> <<>>]
    ELSE [is_none |-> FALSE, text |-> ToolDescriptionsText(tools.list)]

\* [is_none, text]: None for an absent or empty registry
get_tool_descriptions(tools) ==
    IF tools.is_none \/ Len(tools.list) = 0 THEN [is_none |-> TRUE, text |-> <<>>]
    ELSE [is_none |-> FALSE, text |-> ToolDescriptionsText(tools.list)]

(***************************************************************************)
(* parse_function_call (oracle_llm.py, lines 393-406).                     *)
(* Result: [error, function_name, function_parameters].                    *)
(***************************************************************************)
ParseRaises(error) ==
    [error |-> error, function_name |-> <<>>, function_parameters |-> <<>>]

\* A variant of line 404 that collects the arguments in reverse order; C11 must
\* tell it from the code.
LiteralArguments_Reversed(args) ==
    [i \in 1..Len(args) |-> literal_eval(args[Len(args) + 1 - i]).value]

\* line 404: the list comprehension raises at the first argument that is no literal
LiteralArguments(args) == [i \in 1..Len(args) |-> literal_eval(args[i]).value]
AllLiteral(args) == \A i \in 1..Len(args) : literal_eval(args[i]).ok

\* lines 397-406, with parsed the outcome of line 395
CheckCall(code_string, description, parsed) ==
    LET expression == parsed.node
    IN  IF ~ parsed.ok THEN ParseRaises(Raised("SyntaxError", <<>>))
        ELSE IF expression.type # "Call"
        THEN ParseRaises(InvalidError(description, code_string))
        ELSE IF expression.func.type # "Name" \/ expression.func.id = <<>>
        THEN ParseRaises(InvalidError(description, code_string))
        ELSE IF ~ AllLiteral(expression.args)
        THEN ParseRaises(Raised("ValueError", <<>>))
        ELSE [error |-> NoError,
              function_name |-> expression.func.id,
              function_parameters |-> LiteralArguments(expression.args)]

parse_function_call(code_string, description) ==
    CheckCall(code_string, description, ast_parse(code_string))

(***************************************************************************)
(* The callables a caller registers.  "None" is the absent callable; "add" *)
(* is def add(a, b): return a + b.  result: [error, value].                *)
(***************************************************************************)
IsNumber(value) == value.kind \in {"int", "bool"}

CallFunction(function, parameters) ==
    IF function = "add" THEN
        IF Len(parameters) # 2 THEN [error |-> Raised("TypeError",
              <<>>), value |-> NoneValue]
        ELSE IF IsNumber(parameters[1]) /\ IsNumber(parameters[2])
        THEN [error |-> NoError, value |-> IntValue(parameters[1].i + parameters[2].i)]
        ELSE IF parameters[1].kind = "str" /\ parameters[2].kind = "str"
        THEN [error |-> NoError, value |-> StrValue(parameters[1].s \o parameters[2].s)]
        ELSE [error |-> Raised("TypeError", <<>>), value |-> NoneValue]
    ELSE [error |-> Raised("TypeError", <<>>), value |-> NoneValue]

(***************************************************************************)
(* call_tool (oracle_llm.py, lines 368-390).                               *)
(* Result: [error, is_none, result, invoked]: the exception raised, or     *)
(* None returned (is_none), or the result text; invoked is the list of the *)
(* callable invocations made (line 387), each [tool, name, parameters,       *)
(* tool_call] with tool the index of the tool in the registry.             *)
(***************************************************************************)
\* A variant of lines 375-379 without the break: the last tool with the name is
\* kept.  C12 must tell it from the code.
FirstMatch_Last(list, function_name) ==
    LET hits == {i \in 1..Len(list) : list[i].name = function_name}
    IN  IF hits = {} THEN 0 ELSE CHOOSE i \in hits : \A j \in hits : i >= j

\* lines 375-379: the index of the first tool with the name, 0 when there is none
FirstMatch(list, function_name) ==
    LET hits == {i \in 1..Len(list) : list[i].name = function_name}
    IN  IF hits = {} THEN 0 ELSE CHOOSE i \in hits : \A j \in hits : i <= j

CallRaises(error, invoked) ==
    [error |-> error, is_none |-> FALSE, result |-> <<>>, invoked |-> invoked]

\* line 370
OriginalToolCall(tool_call) == strip(SliceFrom(tool_call, Len(TOOL_CALL_PREFIX)))

\* A variant of lines 381-385 that returns None for a name no tool has, as for
\* a tool without a callable.  C31 must tell it from the code.
Dispatch_UnknownIsNone(tools, tool_call, original_tool_call, parsed) ==
    LET index == FirstMatch(tools.list, parsed.function_name)
        tool == tools.list[index]
        invocation == [tool |-> index, name |-> tool.name,
                       parameters |-> parsed.function_parameters,
                       tool_call |-> tool_call]
        returned == CallFunction(tool.function, parsed.function_parameters)
    IN  IF parsed.error # NoError THEN CallRaises(parsed.error, <<>>)
        ELSE IF tools.is_none THEN CallRaises(Raised("TypeError", <<>>), <<>>)
        ELSE IF index = 0 \/ tool.function = "None"
        THEN [error |-> NoError, is_none |-> TRUE, result |-> <<>>, invoked |-> <<>>]
        ELSE IF returned.error # NoError THEN CallRaises(returned.error, <<invocation>>)
        ELSE [error |-> NoError, is_none |-> FALSE, result |-> str(returned.value),
              invoked |-> <<invocation>>]

\* lines 375-390, with parsed the outcome of line 373
Dispatch(tools, tool_call, original_tool_call, parsed) ==
    LET index == FirstMatch(tools.list, parsed.function_name)
        tool == tools.list[index]
        invocation == [tool |-> index, name |-> tool.name,
                       parameters |-> parsed.function_parameters,
                       tool_call |-> tool_call]
        returned == CallFunction(tool.function, parsed.function_parameters)
    IN  IF parsed.error # NoError THEN CallRaises(parsed.error, <<>>)
        \* line 376: iterating over None
        ELSE IF tools.is_none THEN CallRaises(Raised("TypeError", <<>>), <<>>)
        ELSE IF index = 0
        THEN CallRaises(UnknownError(parsed.function_name, original_tool_call), <<>>)
        ELSE IF tool.function = "None"
        THEN [error |-> NoError, is_none |-> TRUE, result |-> <<>>, invoked |-> <<>>]
        ELSE IF returned.error # NoError THEN CallRaises(returned.error, <<invocation>>)
        ELSE [error |-> NoError, is_none |-> FALSE, result |-> str(returned.value),
              invoked |-> <<invocation>>]

call_tool(tools, tool_call) ==
    Dispatch(tools, tool_call, OriginalToolCall(tool_call),
             parse_function_call(OriginalToolCall(tool_call), TOOL_CALL_DESCRIPTION))

(***************************************************************************)
(* The requests run() sends.  A request is [api, messages, message,        *)
(* session_id]: the chat completion request carries a message list         *)
(* (GenericChatRequest.messages) or one text (CohereChatRequest.message),  *)
(* the session request carries the session id and the user message.        *)
(***************************************************************************)
upper(role) ==
    CASE role = "user" -> "USER"
      [] role = "system" -> "SYSTEM"
      [] role = "assistant" -> "ASSISTANT"
      [] role = "developer" -> "DEVELOPER"

\* lines 192-201: one message per item of string type, in order
RECURSIVE ContentMessages(_)
ContentMessages(content_list) ==
    IF content_list = <<>> THEN <<>>
    ELSE (IF Head(content_list).content_type = CONTENT_TYPE_STRING
          THEN <<[role |-> upper(Head(content_list).role),
                  text |-> Head(content_list).content_data]>>
          ELSE <<>>)
         \o ContentMessages(Tail(content_list))

\* lines 203-206: the texts joined to temp_messages
RECURSIVE JoinContent(_, _)
JoinContent(temp_messages, content_list) ==
    IF content_list = <<>> THEN temp_messages
    ELSE IF Head(content_list).content_type = CONTENT_TYPE_STRING
    THEN JoinContent((IF Len(temp_messages) > 0 THEN temp_messages \o <<"\n">>
                      ELSE temp_messages) \o Head(content_list).content_data,
                     Tail(content_list))
    ELSE JoinContent(temp_messages, Tail(content_list))

\* A variant of lines 173-240 without lines 177-190: the tool descriptions are
\* left out of the request.  C15 must tell it from the code.
LlmRequest_NoPreamble(type, content_list, registry) ==
    IF type = "GENERIC"
    THEN [api |-> "chat", messages |-> ContentMessages(content_list), message |-> <<>>,
          session_id |-> ""]
    ELSE [api |-> "chat", messages |-> <<>>, message |-> JoinContent(<<>>, content_list),
          session_id |-> ""]

\* lines 173-240: the chat request of one loop iteration of run_for_llm
LlmRequest(type, content_list, registry) ==
    LET tool_descriptions == get_tool_descriptions(registry)
        preamble == IF tool_descriptions.is_none THEN <<>>
                    ELSE <<[role |-> upper(ROLE_SYSTEM), text |-> tool_descriptions.text]>>
        temp_message_list == preamble \o ContentMessages(content_list)
        temp_messages ==
            JoinContent(IF tool_descriptions.is_none THEN <<>> ELSE tool_descriptions.text,
                        content_list)
    IN  IF type = "GENERIC"
        THEN [api |-> "chat", messages |-> temp_message_list, message |-> <<>>,
              session_id |-> ""]
        ELSE [api |-> "chat", messages |-> <<>>, message |-> temp_messages,
              session_id |-> ""]

\* lines 293-298: the text of the last item of string type, appended to user_message
RECURSIVE NewestContent(_, _)
NewestContent(message, content_list) ==
    IF content_list = <<>> THEN message
    ELSE IF content_list[Len(content_list)].content_type = CONTENT_TYPE_STRING
    THEN (IF Len(message) > 0 THEN message \o <<"\n">> ELSE message)
         \o content_list[Len(content_list)].content_data
    ELSE NewestContent(message, SubSeq(content_list, 1, Len(content_list) - 1))

\* lines 284-298: the first user message of run_for_agent
FirstUserMessage(runs, content_list, registry) ==
    LET tool_descriptions == get_tool_descriptions(registry)
        head == IF runs = 0 /\ ~ tool_descriptions.is_none THEN tool_descriptions.text
                ELSE <<>>
    IN  NewestContent(head, content_list)

\* A variant of lines 303-312 whose request names a session of its own instead
\* of self._session_id.  C17 must tell it from the code.
AgentRequest_OwnSession(session, message) ==
    [api |-> "session", messages |-> <<>>, message |-> message,
     session_id |-> "session-2"]

\* lines 303-312
AgentRequest(session, message) ==
    [api |-> "session", messages |-> <<>>, message |-> message, session_id |-> session]

(***************************************************************************)
(* One loop iteration after the backend has answered.                      *)
(* Result: [status, error, content_list, message, invoked] with status     *)
(* "return" (break), "raise" or "continue".                                *)
(***************************************************************************)
\* lines 254 and 320
IsToolCall(response_message) == contains(response_message, TOOL_CALL_PREFIX)

\* Variants of the embedded-marker test that differ from lines 255 and 321: the
\* test left out, the search started at index 0, and the search started behind
\* the leading marker.  C5, C7 and C8 must tell each of them from the code.
HasEmbedded_Never(response_message) == FALSE
HasEmbedded_FromStart(response_message) ==
    find(response_message, TOOL_CALL_PREFIX, 0) # -1
HasEmbedded_BehindMarker(response_message) ==
    find(response_message, TOOL_CALL_PREFIX, Len(TOOL_CALL_PREFIX)) # -1

\* lines 255 and 321
HasEmbedded(response_message) == find(response_message, TOOL_CALL_PREFIX, 1) # -1

\* lines 251-257: [error, number_of_calls] after the segments from i on
RECURSIVE ScanResponses(_, _, _)
ScanResponses(reply, i, number_of_calls) ==
    IF i > Len(reply) THEN [error |-> NoError, number_of_calls |-> number_of_calls]
    ELSE IF IsToolCall(reply[i])
    THEN IF HasEmbedded(reply[i])
         THEN [error |-> EmbeddedError, number_of_calls |-> number_of_calls]
         ELSE ScanResponses(reply, i + 1, number_of_calls + 1)
    ELSE ScanResponses(reply, i + 1, number_of_calls)

\* Variants of the count test that differ from line 259: the test left out, and
\* the test without its second disjunct.  C1 and C6 must tell them from the code.
WrongNumber_Never(number_of_calls, reply) == FALSE
WrongNumber_IgnoresProse(number_of_calls, reply) == number_of_calls > 1

\* line 259
WrongNumber(number_of_calls, reply) ==
    number_of_calls > 1 \/ (number_of_calls = 1 /\ Len(reply) > 1)

IterationRaises(error, content_list, message, invoked) ==
    [status |-> "raise", error |-> error, content_list |-> content_list,
     message |-> message, invoked |-> invoked]
IterationReturns(content_list, message) ==
    [status |-> "return", error |-> NoError, content_list |-> content_list,
     message |-> message, invoked |-> <<>>]

\* A variant of lines 274-278 with the two items in the other order; C2 must
\* tell it from the code.
Augmented_ResultFirst(content_list, response_message, result) ==
    content_list \o
    <<OracleLLMContent(ResultStatement(response_message, result), "string", ROLE_SYSTEM),
      OracleLLMContent(response_message, "string", ROLE_ASSISTANT)>>

\* lines 274-278: the echo of the reply and the result statement
Augmented(content_list, response_message, result) ==
    content_list \o
    <<OracleLLMContent(response_message, "string", ROLE_ASSISTANT),
      OracleLLMContent(ResultStatement(response_message, result), "string", ROLE_SYSTEM)>>

\* A variant of lines 271-278 with a cap of one tool step: run_for_llm returns
\* after the call instead of re-entering.  C19 must tell it from the code.
AfterCallForLlm_OneStep(content_list, response_message, called) ==
    IF called.error # NoError
    THEN IterationRaises(called.error, content_list, <<>>, called.invoked)
    ELSE [status |-> "return", error |-> NoError,
          content_list |-> IF called.is_none THEN content_list
                           ELSE Augmented(content_list, response_message, called.result),
          message |-> <<>>, invoked |-> called.invoked]

\* A variant of lines 271-278 without the test of line 271: the concatenation of
\* line 277 then fails on None.  C3 must tell it from the code.
AfterCallForLlm_NoNoneTest(content_list, response_message, called) ==
    IF called.error # NoError
    THEN IterationRaises(called.error, content_list, <<>>, called.invoked)
    ELSE IF called.is_none
    THEN IterationRaises(Raised("TypeError", <<>>), content_list, <<>>, called.invoked)
    ELSE [status |-> "continue", error |-> NoError,
          content_list |-> Augmented(content_list, response_message, called.result),
          message |-> <<>>, invoked |-> called.invoked]

\* lines 271-278, with called the outcome of line 269
AfterCallForLlm(content_list, response_message, called) ==
    IF called.error # NoError
    THEN IterationRaises(called.error, content_list, <<>>, called.invoked)
    ELSE IF called.is_none THEN IterationReturns(content_list, <<>>)
    ELSE [status |-> "continue", error |-> NoError,
          content_list |-> Augmented(content_list, response_message, called.result),
          message |-> <<>>, invoked |-> called.invoked]

\* lines 249-278 of run_for_llm
LlmIteration(content_list, registry, reply) ==
    LET scan == ScanResponses(reply, 1, 0)
    IN  IF scan.error # NoError THEN IterationRaises(scan.error, content_list, <<>>, <<>>)
        ELSE IF WrongNumber(scan.number_of_calls, reply)
        THEN IterationRaises(NumberError, content_list, <<>>, <<>>)
        ELSE IF scan.number_of_calls = 0 THEN IterationReturns(content_list, <<>>)
        ELSE AfterCallForLlm(content_list, reply[1], call_tool(registry, reply[1]))

\* A variant of lines 326-334 without the continue of line 334: the loop is left
\* after the call.  C18 must tell it from the code.
AfterCallForAgent_NoContinue(message, response_message, called) ==
    IF called.error # NoError
    THEN IterationRaises(called.error, <<>>, message, called.invoked)
    ELSE [status |-> "return", error |-> NoError, content_list |-> <<>>,
          message |-> message, invoked |-> called.invoked]

\* A variant of lines 326-334 with line 330 in place of line 331: the reply is
\* put before the result statement.  C16 must tell it from the code.
AfterCallForAgent_WithEcho(message, response_message, called) ==
    IF called.error # NoError
    THEN IterationRaises(called.error, <<>>, message, called.invoked)
    ELSE IF called.is_none THEN IterationReturns(<<>>, message)
    ELSE [status |-> "continue", error |-> NoError, content_list |-> <<>>,
          message |-> response_message \o <<"\n">>
                      \o ResultStatement(response_message, called.result),
          invoked |-> called.invoked]

\* lines 326-334, with called the outcome of line 324
AfterCallForAgent(message, response_message, called) ==
    IF called.error # NoError
    THEN IterationRaises(called.error, <<>>, message, called.invoked)
    ELSE IF called.is_none THEN IterationReturns(<<>>, message)
    ELSE [status |-> "continue", error |-> NoError, content_list |-> <<>>,
          message |-> ResultStatement(response_message, called.result),
          invoked |-> called.invoked]

\* lines 314-336 of run_for_agent
AgentIteration(message, registry, response_message) ==
    IF ~ IsToolCall(response_message) THEN IterationReturns(<<>>, message)
    ELSE IF HasEmbedded(response_message)
    THEN IterationRaises(EmbeddedError, <<>>, message, <<>>)
    ELSE AfterCallForAgent(message, response_message, call_tool(registry, response_message))

(***************************************************************************)
(* Inputs: the transcripts and registries a caller passes to run() and the *)
(* replies a backend gives.                                                *)
(***************************************************************************)
TEXT_QUESTION ==
    <<"w","h","a","t"," ","i","s"," ","2"," ","p","l","u","s"," ","3">>
TEXT_BRIEF ==
    <<"b","e"," ","b","r","i","e","f">>
TEXT_HI ==
    <<"h","i">>
TEXT_FIVE ==
    <<"5">>
NAME_ADD ==
    <<"a","d","d">>
NAME_SUB ==
    <<"s","u","b">>
NAME_A ==
    <<"a">>
NAME_B ==
    <<"b">>
DESCRIPTION_ADD ==
    <<"A","d","d"," ","t","w","o"," ","n","u","m","b","e","r","s",".">>
DESCRIPTION_SUB ==
    <<"S","u","b","t","r","a","c","t",".">>
DESCRIPTION_A ==
    <<"T","h","e"," ","f","i","r","s","t"," ","n","u","m","b","e","r",".">>
DESCRIPTION_B ==
    <<"T","h","e"," ","s","e","c","o","n","d"," ","n","u","m","b","e","r",".">>

ParametersAB ==
    <<OracleValue(NAME_A, DESCRIPTION_A, "number"), OracleValue(NAME_B, DESCRIPTION_B, "number")>>
\* an executable tool and its advertised-only twin
ToolAdd == OracleTool(NAME_ADD, DESCRIPTION_ADD, "add", ParametersAB)
ToolAddNoFunction == OracleTool(NAME_ADD, DESCRIPTION_ADD, "None", ParametersAB)
ToolSubNoFunction == OracleTool(NAME_SUB, DESCRIPTION_SUB, "None", ParametersAB)
\* an advertised-only tool whose name differs from add in the case of one letter
NAME_ADD_UPPER ==
    <<"A","d","d">>
ToolUpperAddNoFunction == OracleTool(NAME_ADD_UPPER, DESCRIPTION_ADD, "None", ParametersAB)

Registries ==
    {NoTools,
     ToolList(<<>>),
     ToolList(<<ToolAdd>>),
     ToolList(<<ToolAddNoFunction>>),
     ToolList(<<ToolSubNoFunction, ToolAdd>>),
     ToolList(<<ToolAddNoFunction, ToolAdd>>),
     ToolList(<<ToolAdd, ToolAddNoFunction>>),
     ToolList(<<ToolUpperAddNoFunction, ToolAdd>>)}

Transcripts ==
    {<<OracleLLMContent(TEXT_QUESTION, CONTENT_TYPE_STRING, ROLE_USER)>>,
     <<OracleLLMContent(TEXT_BRIEF, CONTENT_TYPE_STRING, ROLE_SYSTEM),
       OracleLLMContent(TEXT_HI, CONTENT_TYPE_STRING, ROLE_USER),
       OracleLLMContent(TEXT_FIVE, "image", ROLE_USER)>>}

\* call texts
CALL_ADD ==
    <<"a","d","d","(","2",",","3",")">>
CALL_SUB ==
    <<"s","u","b","(","1",",","1",")">>
CALL_ADD_ONE ==
    <<"a","d","d","(","2",")">>
CALL_ADD_NEGATIVE ==
    <<"a","d","d","(","-","2",","," ","3",")">>
CALL_ADD_STRINGS ==
    <<"a","d","d","(","\"","a","\"",",","\"","b","\"",")">>
CALL_TRAILING_PROSE ==
    <<"a","d","d","(","2",",","3",")"," ","p","l","e","a","s","e">>
CALL_NOT_A_CALL ==
    <<"a","d","d">>
CALL_ATTRIBUTE ==
    <<"m",".","a","d","d","(","2",",","3",")">>
CALL_NOT_LITERAL ==
    <<"a","d","d","(","x",",","3",")">>
CALL_ARITHMETIC ==
    <<"a","d","d","(","2","+","1",",","3",")">>
CALL_KEYWORDS ==
    <<"a","d","d","(","a","=","2",",","b","=","3",")">>
CALL_UNCLOSED ==
    <<"a","d","d","(","2">>

CallTexts ==
    {CALL_ADD, CALL_SUB, CALL_ADD_ONE, CALL_ADD_STRINGS, CALL_TRAILING_PROSE, CALL_NOT_A_CALL, CALL_ATTRIBUTE, CALL_NOT_LITERAL,
     CALL_ARITHMETIC, CALL_KEYWORDS, CALL_UNCLOSED, <<>>}

\* "TOOL-CALL: <call text>", as the preamble asks the backend to write it
Invocation(call_text) == TOOL_CALL_PREFIX \o <<" ">> \o call_text

\* reply segments: prose, invocations, and the marker away from the start
ProseSegments == {TEXT_FIVE, TEXT_HI}
InvocationSegments == {Invocation(c) : c \in CallTexts} \cup {TOOL_CALL_PREFIX \o CALL_SUB}
MisplacedSegments ==
    {<<" ">> \o Invocation(CALL_ADD),
     TEXT_HI \o <<" ">> \o Invocation(CALL_ADD),
     Invocation(CALL_ADD) \o <<" ">> \o Invocation(CALL_SUB),
     TOOL_CALL_PREFIX \o TOOL_CALL_PREFIX}
Segments == ProseSegments \cup InvocationSegments \cup MisplacedSegments

\* the segments used in replies of several segments
SomeSegments ==
    {TEXT_HI, Invocation(CALL_ADD), <<" ">> \o Invocation(CALL_ADD),
     Invocation(CALL_ADD) \o <<" ">> \o Invocation(CALL_SUB)}

\* lines 242-247: GENERIC gives the list of the reply's segments, COHERE one text
LlmReplies(type) ==
    IF type = "GENERIC"
    THEN {<<>>} \cup {<<s>> : s \in Segments}
         \cup {<<s, t>> : s \in SomeSegments, t \in SomeSegments}
         \cup {<<TEXT_HI, TEXT_FIVE, Invocation(CALL_ADD)>>}
    ELSE {<<s>> : s \in Segments}

\* line 314: the session reply is one text
AgentReplies == Segments

(***************************************************************************)
(* State.                                                                  *)
(***************************************************************************)
VARIABLES
    back_end,                 \* self._parameters.back_end
    model_type,               \* self._parameters.model_type
    session_id,               \* self._session_id ("" for the llm back end)
    number_of_runs,           \* self._number_of_runs
    pc,                       \* "idle", or "chat": run() waits for the backend's reply
    started,                  \* the number of run() calls made so far
    arg_content_list,         \* the oracle_llm_content_list the caller passed to run()
    arg_tools,                \* the tools the caller passed to run()
    oracle_llm_content_list,  \* the local oracle_llm_content_list of run_for_llm
    user_message,             \* the local user_message of run_for_agent
    sent,                     \* the requests sent to the backend in this run, in order
    received,                 \* the replies the backend gave in this run, in order
    response_messages,        \* the local response_messages: the last reply
    calls,                    \* the callable invocations made in this run, in order
    outcome,                  \* how the last run() ended: [kind, value, error]; kind
                              \* "none" while it goes on and when a turn made no call
    described,                \* the results of the get_tool_descriptions calls, in order
    chat_ctx,                 \* self._chat_ctx._items of the stream of the turn
    call_id_to_tool_call_dictionary,  \* the plugin's map: call id -> raw call text
    events,                   \* the chunks the turn sent on self._event_ch, in order
    stream_error,             \* the exception that left _run of the turn, or NoError
    thread,                   \* the stream tasks that hold the event loop's thread: one
                              \* task, or none when the thread is free
    task_pc,                  \* per stream task of the LLM plugin: where it is (at) and
                              \* the value of _number_of_runs when it entered run() (runs)
    tts_pc,                   \* where the synthesize_speech coroutine is
    index_dictionary,         \* self._index_dictionary of the AudioCache: key -> the
                              \* name of the audio file
    index_file,               \* the index file of the cache directory: whether it
                              \* exists, and the dictionary written to it
    audio_files,              \* the audio files of the cache directory: name -> bytes
    file_names,               \* the number of file names utils.shortuuid() has given
    cache_log,                \* the completed calls of the cache and the removals of
                              \* audio files by others, in order
    audio_cache,              \* self._audio_cache of the TTS plugin, with self._voice
                              \* and self._audio_cache_maximum_text_length
    synthesis,                \* the synthesize run of the TTS plugin in progress, or
                              \* the last one: where it is (at), the number of runs
                              \* so far, its text, what the cache gave (cached), the
                              \* number of service requests, what the service gave,
                              \* the frames pushed, the exception that left _run
    clients,                  \* every RealtimeSpeechClient OracleSTT has made, in
                              \* order: its close_flag, whether connect() has been
                              \* called on it (connecting), whether its connect
                              \* message has been received (connect_message)
    real_time_speech_client,  \* self._real_time_speech_client: <<>> for None, or
                              \* <<i>> for the client clients[i]
    connected,                \* self._connected
    connect_tasks,            \* the connect_background_task tasks created and not
                              \* yet run
    failures,                 \* the on_error and on_network_event callbacks so far
    audio_bytes_queue,        \* self._audio_bytes_queue; the chunks are numbered in
                              \* the order of add_audio_bytes
    added,                    \* the number of add_audio_bytes calls so far
    sender,                   \* where add_audio_bytes_background_task is
    sent_audio,               \* the send_data calls, in order, each with the client
                              \* it was made on and the state of that client
    speech_result_queue,      \* self._speech_result_queue
    results,                  \* the messages of the on_result callbacks, in order
    speech_events,            \* the events get_speech_event has returned, in order
    return_partial_results    \* self._parameters.return_partial_results

\* the state of the adapter and of the run() call in progress
adapterVars ==
    <<back_end, model_type, session_id, number_of_runs, pc, started, arg_content_list,
      arg_tools, oracle_llm_content_list, user_message, sent, received,
      response_messages, calls, outcome>>

\* the state of the hosting side: the LiveKit plugins and their event loop
hostVars ==
    <<described, chat_ctx, call_id_to_tool_call_dictionary, events, stream_error,
      thread, task_pc, tts_pc>>

\* the state of the audio cache and its directory
cacheVars == <<index_dictionary, index_file, audio_files, file_names, cache_log>>

\* the state of the TTS plugin
ttsVars == <<audio_cache, synthesis>>

\* the state of OracleSTT and of the STT plugin
connectionVars ==
    <<clients, real_time_speech_client, connected, connect_tasks, failures>>
audioVars == <<audio_bytes_queue, added, sender, sent_audio>>
resultVars == <<speech_result_queue, results, speech_events, return_partial_results>>
sttVars == <<connectionVars, audioVars, resultVars>>

\* the state of the speech side: the cache and the speech plugins
speechVars == <<cacheVars, ttsVars, sttVars>>

vars ==
    <<back_end, model_type, session_id, number_of_runs, pc, started, arg_content_list,
      arg_tools, oracle_llm_content_list, user_message, sent, received,
      response_messages, calls, outcome, described, chat_ctx,
      call_id_to_tool_call_dictionary, events, stream_error, thread, task_pc, tts_pc,
      index_dictionary, index_file, audio_files, file_names, cache_log, audio_cache,
      synthesis, clients, real_time_speech_client, connected, connect_tasks, failures,
      audio_bytes_queue, added, sender, sent_audio, speech_result_queue, results,
      speech_events, return_partial_results>>

NoOutcome == [kind |-> "none", value |-> <<>>, error |-> NoError]
\* A variant of the return of run() that keeps the first segment only; C9 must
\* tell it from the code.
Returned_FirstOnly(value) ==
    [kind |-> "return", value |-> IF value = <<>> THEN <<>> ELSE <<value[1]>>,
     error |-> NoError]
Returned(value) == [kind |-> "return", value |-> value, error |-> NoError]
\* A variant of the exception leaving run(): its message is returned as the reply.
\* C20 must tell it from the code.
Failed_AsReply(error) == [kind |-> "return", value |-> <<error.message>>, error |-> NoError]
Failed(error) == [kind |-> "raise", value |-> <<>>, error |-> error]

\* the stream tasks the framework creates on one LLM plugin instance
MaxStreams == 3
Streams == 1..MaxStreams

\* LLM.__init__ of the plugin (oracle_llm_livekit_plugin.py, lines 27-93): the
\* map starts empty (line 93); nothing runs on the event loop yet
HostInit ==
    /\ described = <<>>
    /\ chat_ctx = <<>>
    /\ call_id_to_tool_call_dictionary = <<>>
    /\ events = <<>>
    /\ stream_error = NoError
    /\ thread = {}
    /\ task_pc = [stream \in Streams |-> [at |-> "ready", runs |-> 0]]
    /\ tts_pc = "ready"

(***************************************************************************)
(* The speech side after construction with the default arguments.          *)
(* Audio bytes are [is_none, data]: None, or a bytes object (data may be   *)
(* empty).                                                                 *)
(***************************************************************************)
NoAudio == [is_none |-> TRUE, data |-> <<>>]
Audio(data) == [is_none |-> FALSE, data |-> data]

\* the index file before the first write
NoFile == [exists |-> FALSE, dictionary |-> <<>>]

\* AudioCache.__init__ (audio_cache.py, lines 23-36) on a directory that does
\* not exist yet: the directory is made, there is no index file, the index is {}
CacheInit ==
    /\ index_dictionary = <<>>
    /\ index_file = NoFile
    /\ audio_files = <<>>
    /\ file_names = 0
    /\ cache_log = <<>>

\* self._audio_cache = None (oracle_tts_livekit_plugin.py, lines 51-52): the
\* voice and the maximum text length are not kept
NoAudioCache == [is_none |-> TRUE, voice |-> <<>>, maximum_text_length |-> 0]

\* no synthesize run yet
NoSynthesis ==
    [at |-> "ready", runs |-> 0, input_text |-> <<>>, cached |-> NoAudio, requests |-> 0,
     service |-> <<>>, frames |-> <<>>, error |-> NoError]

\* TTS.__init__ (oracle_tts_livekit_plugin.py, lines 22-56) with
\* audio_cache_file_path = None
TtsInit ==
    /\ audio_cache = NoAudioCache
    /\ synthesis = NoSynthesis

\* a RealtimeSpeechClient as its constructor leaves it (oracle_stt.py, lines
\* 127-128)
NewClient == [close_flag |-> FALSE, connecting |-> FALSE, connect_message |-> FALSE]

\* OracleSTT.__init__ (oracle_stt.py, lines 30-79): the two queues are empty, the
\* sender task is created (line 77) and real_time_speech_client_open (line 79)
\* makes the first client and the task that will connect it
SttInitWith(flag) ==
    /\ clients = <<NewClient>>
    /\ real_time_speech_client = <<Len(<<NewClient>>)>>
    /\ connected = FALSE
    /\ connect_tasks = Len(<<NewClient>>)
    /\ failures = 0
    /\ audio_bytes_queue = <<>>
    /\ added = 0
    /\ sender = "test"
    /\ sent_audio = <<>>
    /\ speech_result_queue = <<>>
    /\ results = <<>>
    /\ speech_events = <<>>
    /\ return_partial_results = flag

\* with return_partial_results = False, the default (line 49)
SttInit == SttInitWith(FALSE)

SpeechInit ==
    /\ CacheInit
    /\ TtsInit
    /\ SttInit

\* __init__ (lines 48-107) and initialize_for_agent (lines 127-154)
Constructed ==
    /\ back_end \in {BACK_END_GEN_AI_LLM, BACK_END_GEN_AI_AGENT}
    /\ model_type \in (IF back_end = BACK_END_GEN_AI_LLM THEN {"GENERIC", "COHERE"}
                       ELSE {"GENERIC"})
    /\ session_id = (IF back_end = BACK_END_GEN_AI_AGENT THEN "session-1" ELSE "")
    /\ number_of_runs = 0
    /\ pc = "idle"
    /\ started = 0
    /\ arg_content_list = <<>>
    /\ oracle_llm_content_list = <<>>
    /\ user_message = <<>>
    /\ sent = <<>>
    /\ received = <<>>
    /\ response_messages = <<>>
    /\ calls = <<>>
    /\ outcome = NoOutcome
    /\ HostInit

Init ==
    /\ Constructed
    /\ arg_tools = NoTools
    /\ SpeechInit

(***************************************************************************)
(* run() (lines 160-168) up to the first backend call.                     *)
(***************************************************************************)
EnterRunForLlm(content_list, registry) ==
    /\ pc = "idle"
    /\ back_end = BACK_END_GEN_AI_LLM
    /\ started < MaxRuns
    /\ started' = started + 1
    /\ arg_content_list' = content_list
    /\ arg_tools' = registry
    /\ oracle_llm_content_list' = content_list
    /\ sent' = <<LlmRequest(model_type, content_list, registry)>>
    /\ received' = <<>>
    /\ response_messages' = <<>>
    /\ calls' = <<>>
    /\ outcome' = NoOutcome
    /\ pc' = "chat"
    /\ UNCHANGED <<back_end, model_type, session_id, number_of_runs, user_message>>

\* run() called by a caller other than the plugin
RunForLlm(content_list, registry) ==
    /\ EnterRunForLlm(content_list, registry)
    /\ UNCHANGED <<hostVars, speechVars>>

EnterRunForAgent(content_list, registry) ==
    /\ pc = "idle"
    /\ back_end = BACK_END_GEN_AI_AGENT
    /\ started < MaxRuns
    /\ started' = started + 1
    /\ arg_content_list' = content_list
    /\ arg_tools' = registry
    /\ user_message' = FirstUserMessage(number_of_runs, content_list, registry)
    /\ sent' = <<AgentRequest(session_id, user_message')>>
    /\ received' = <<>>
    /\ response_messages' = <<>>
    /\ calls' = <<>>
    /\ outcome' = NoOutcome
    /\ pc' = "chat"
    /\ UNCHANGED <<back_end, model_type, session_id, number_of_runs,
                   oracle_llm_content_list>>

RunForAgent(content_list, registry) ==
    /\ EnterRunForAgent(content_list, registry)
    /\ UNCHANGED <<hostVars, speechVars>>

\* the caller calls run() again with the list and the registry it passed to the
\* call before, as these objects are now
RunAgain ==
    /\ started >= 1
    /\ \/ RunForLlm(arg_content_list, arg_tools)
       \/ RunForAgent(arg_content_list, arg_tools)

(***************************************************************************)
(* The backend answers: the rest of the loop iteration, then either the    *)
(* next request (continue), the return of run() with the counter           *)
(* incremented (line 166), or the exception leaving run().                 *)
(***************************************************************************)
\* how run() goes on after the iteration it on the reply value (response_messages)
Proceed(it, value, request) ==
    /\ Len(calls) + Len(it.invoked) <= MaxCalls
    /\ received' = Append(received, value)
    /\ calls' = calls \o it.invoked
    /\ IF it.status = "continue"
       THEN /\ sent' = Append(sent, request)
            /\ UNCHANGED <<pc, outcome, number_of_runs>>
       ELSE /\ pc' = "idle"
            /\ outcome' = (IF it.status = "return" THEN Returned(value) ELSE Failed(it.error))
            /\ number_of_runs' = (IF it.status = "return" THEN number_of_runs + 1
                                  ELSE number_of_runs)
            /\ UNCHANGED sent

\* A variant of line 249 without the copy: lines 275 and 278 append to the list
\* object of the caller.  C32 must tell it from the code.
CallerList_NoCopy(caller_list, working_list) == working_list

\* line 249: the local name is bound to a deep copy before lines 275 and 278
\* append to it, so the list object of the caller keeps its items
CallerList(caller_list, working_list) == caller_list

LlmProceed(reply, it) ==
    /\ Proceed(it, reply, LlmRequest(model_type, it.content_list, arg_tools))
    /\ response_messages' = reply
    /\ oracle_llm_content_list' = it.content_list
    /\ arg_content_list' = CallerList(arg_content_list, it.content_list)

LlmChatReturns(reply) ==
    /\ pc = "chat"
    /\ back_end = BACK_END_GEN_AI_LLM
    /\ LlmProceed(reply, LlmIteration(oracle_llm_content_list, arg_tools, reply))
    /\ UNCHANGED <<back_end, model_type, session_id, started, arg_tools, user_message>>
    /\ UNCHANGED <<hostVars, speechVars>>

AgentProceed(response_message, it) ==
    /\ Proceed(it, <<response_message>>, AgentRequest(session_id, it.message))
    /\ response_messages' = <<response_message>>
    /\ user_message' = it.message

AgentChatReturns(response_message) ==
    /\ pc = "chat"
    /\ back_end = BACK_END_GEN_AI_AGENT
    /\ AgentProceed(response_message,
                    AgentIteration(user_message, arg_tools, response_message))
    /\ UNCHANGED <<back_end, model_type, session_id, started, arg_content_list, arg_tools,
                   oracle_llm_content_list>>
    /\ UNCHANGED <<hostVars, speechVars>>

\* the backend call raises (lines 240 and 309): the error leaves run() unchanged
ChatFails ==
    /\ pc = "chat"
    /\ pc' = "idle"
    /\ outcome' = Failed(Raised("ServiceError", <<>>))
    /\ UNCHANGED <<back_end, model_type, session_id, number_of_runs, started,
                   arg_content_list, arg_tools, oracle_llm_content_list, user_message, sent,
                   received, response_messages, calls>>
    /\ UNCHANGED <<hostVars, speechVars>>

Next ==
    \/ \E content_list \in Transcripts, registry \in Registries :
           RunForLlm(content_list, registry)
    \/ \E content_list \in Transcripts, registry \in Registries :
           RunForAgent(content_list, registry)
    \/ \E reply \in LlmReplies(model_type) : LlmChatReturns(reply)
    \/ \E response_message \in AgentReplies : AgentChatReturns(response_message)
    \/ ChatFails
    \/ RunAgain

Spec == Init /\ [][Next]_vars

(***************************************************************************)
(* The backend call of a run in progress returns: chat() of lines 240 and  *)
(* 309 is a blocking call, and run() goes on as soon as it has returned.   *)
(***************************************************************************)
\* The runs of the loop with the replies that decide how it goes on: prose, an
\* executed call, a call that raises, a call of a tool without a callable or of no
\* tool, and a misplaced marker.
LoopRegistries ==
    {NoTools, ToolList(<<ToolAdd>>), ToolList(<<ToolAddNoFunction>>)}
LoopSegments ==
    {TEXT_HI, Invocation(CALL_ADD), Invocation(CALL_ADD_STRINGS), Invocation(CALL_ADD_ONE),
     Invocation(CALL_SUB), <<" ">> \o Invocation(CALL_ADD)}
LoopLlmReplies ==
    {<<>>, <<TEXT_HI, TEXT_HI>>, <<TEXT_HI, Invocation(CALL_ADD)>>}
    \cup {<<segment>> : segment \in LoopSegments}

BackendReplies ==
    \/ \E reply \in LoopLlmReplies : LlmChatReturns(reply)
    \/ \E response_message \in LoopSegments : AgentChatReturns(response_message)

LoopNext ==
    \/ \E content_list \in Transcripts, registry \in LoopRegistries :
           RunForLlm(content_list, registry)
    \/ \E content_list \in Transcripts, registry \in LoopRegistries :
           RunForAgent(content_list, registry)
    \/ BackendReplies
    \/ ChatFails

FairSpec == Init /\ [][LoopNext]_vars /\ WF_vars(BackendReplies)

(***************************************************************************)
(* call_tool on rendered calls.  The tool descriptions tell the backend to *)
(* write "TOOL-CALL: function_name(parameters)" with string parameters in  *)
(* double quotes (oracle_llm.py, lines 361-363); Render writes a call that *)
(* way, and RenderAndCall hands it to call_tool with a registry of one     *)
(* executable tool of that name.                                           *)
(***************************************************************************)
MaxArguments == 2

LiteralText(value) ==
    IF value.kind = "str" THEN <<"\"">> \o value.s \o <<"\"">> ELSE str(value)

RECURSIVE JoinLiterals(_)
JoinLiterals(arguments) ==
    IF arguments = <<>> THEN <<>>
    ELSE IF Len(arguments) = 1 THEN LiteralText(arguments[1])
    ELSE LiteralText(Head(arguments)) \o <<",">> \o JoinLiterals(Tail(arguments))

Render(name, arguments) ==
    TOOL_CALL_PREFIX \o <<" ">> \o name \o <<"(">> \o JoinLiterals(arguments) \o <<")">>

NAME_GET_X ==
    <<"g","e","t","-","x">>
NAME_ADD_2 ==
    <<"a","d","d","_","2">>
RenderedNames == {NAME_ADD, NAME_A, NAME_ADD_2, NAME_GET_X, NoneText}
RenderedLiterals ==
    {IntValue(2), IntValue(0 - 3), StrValue(<<"a">>), StrValue(<<>>), BoolValue(TRUE),
     NoneValue}
RenderedArguments ==
    UNION {[1..n -> RenderedLiterals] : n \in 0..MaxArguments}

\* the outcome of call_tool as the outcome of the step
CallOutcome(called) ==
    /\ calls' = called.invoked
    /\ outcome' = (IF called.error # NoError THEN Failed(called.error)
                   ELSE Returned(<<called.result>>))

RenderAndCall(name, arguments) ==
    /\ pc = "idle"
    /\ started = 0
    /\ started' = 1
    /\ arg_tools' = ToolList(<<OracleTool(name, DESCRIPTION_ADD, "add", ParametersAB)>>)
    /\ response_messages' = <<Render(name, arguments)>>
    /\ CallOutcome(call_tool(ToolList(<<OracleTool(name, DESCRIPTION_ADD, "add",
                                                   ParametersAB)>>),
                             Render(name, arguments)))
    /\ UNCHANGED <<back_end, model_type, session_id, number_of_runs, pc,
                   arg_content_list, oracle_llm_content_list, user_message, sent,
                   received>>
    /\ UNCHANGED <<hostVars, speechVars>>

RenderNext ==
    \E name \in RenderedNames, arguments \in RenderedArguments :
        RenderAndCall(name, arguments)

RenderSpec == Init /\ [][RenderNext]_vars

(***************************************************************************)
(* get_tool_descriptions called on its own: a static method of OracleLLM   *)
(* (oracle_llm.py, lines 340-365) that a caller may apply to any registry. *)
(***************************************************************************)
MaxTools == 2
MaxDescribes == 2

NAME_NOW ==
    <<"n","o","w">>
DESCRIPTION_NOW ==
    <<"T","h","e"," ","t","i","m","e",".">>
NAME_ECHO ==
    <<"e","c","h","o">>
DESCRIPTION_ECHO ==
    <<"S","a","y"," ","i","t",".">>
NAME_TEXT ==
    <<"t","e","x","t">>

\* a tool without parameters and a tool with one string parameter
ToolNow == OracleTool(NAME_NOW, DESCRIPTION_NOW, "None", <<>>)
ToolEcho ==
    OracleTool(NAME_ECHO, DESCRIPTION_ECHO, "None",
               <<OracleValue(NAME_TEXT, DESCRIPTION_ECHO, "string")>>)
DescribedTools == {ToolAdd, ToolSubNoFunction, ToolNow, ToolEcho}
DescribedRegistries ==
    {NoTools} \cup {ToolList(list) : list \in UNION {[1..n -> DescribedTools] : n \in 0..MaxTools}}

DescribeInit ==
    /\ Constructed
    /\ arg_tools \in DescribedRegistries
    /\ SpeechInit

\* OracleLLM.get_tool_descriptions(tools): reads the registry, returns the text
Describe ==
    /\ Len(described) < MaxDescribes
    /\ described' = Append(described, get_tool_descriptions(arg_tools))
    /\ UNCHANGED <<back_end, model_type, session_id, number_of_runs, pc, started,
                   arg_content_list, arg_tools, oracle_llm_content_list, user_message,
                   sent, received, response_messages, calls, outcome>>
    /\ UNCHANGED <<chat_ctx, call_id_to_tool_call_dictionary, events, stream_error,
                   thread, task_pc, tts_pc>>
    /\ UNCHANGED speechVars

DescribeNext == Describe

DescribeSpec == DescribeInit /\ [][DescribeNext]_vars

(***************************************************************************)
(* The event loop of the hosting framework.  Every stream of the LLM       *)
(* plugin is a task whose body is DerivedLLMStream._run                    *)
(* (oracle_llm_livekit_plugin.py, lines 128-213); the speech synthesis of  *)
(* the TTS plugin is a coroutine on the same loop (oracle_tts.py, lines    *)
(* 66-102).  A task gets the loop's thread when the thread is free and     *)
(* keeps it until it awaits or ends.  Here run() is the call, the backend  *)
(* exchange and the return; what the exchange carries is left out.         *)
(***************************************************************************)
\* A variant of line 153 that awaits run() in a worker thread, as line 102 of
\* oracle_tts.py does with its request: the loop's thread is free meanwhile.
\* C24 must tell it from the code.
ThreadDuringRun_ToThread(stream) == {}
\* line 153: run() is called in the coroutine itself, with no await: the stream
\* keeps the loop's thread while run() waits for the backend
ThreadDuringRun(stream) == {stream}

\* the task of a stream is scheduled: _run builds the transcript (lines 129-151),
\* calls run() (line 153), which sends the request and waits for the reply
StreamCallsRun(stream) ==
    /\ thread = {}
    /\ task_pc[stream].at = "ready"
    /\ task_pc' = [task_pc EXCEPT ![stream] = [at |-> "chat", runs |-> number_of_runs]]
    /\ started' = started + 1
    /\ thread' = ThreadDuringRun(stream)
    /\ UNCHANGED <<back_end, model_type, session_id, number_of_runs, pc, arg_content_list,
                   arg_tools, oracle_llm_content_list, user_message, sent, received,
                   response_messages, calls, outcome>>
    /\ UNCHANGED <<described, chat_ctx, call_id_to_tool_call_dictionary, events,
                   stream_error, tts_pc>>
    /\ UNCHANGED speechVars

\* the backend replied and run() returns: the counter is incremented
\* (oracle_llm.py, line 166), _run sends its chunk (lines 155-213) and ends
StreamRunReturns(stream) ==
    /\ task_pc[stream].at = "chat"
    /\ task_pc' = [task_pc EXCEPT ![stream].at = "done"]
    /\ number_of_runs' = number_of_runs + 1
    /\ thread' = thread \ {stream}
    /\ UNCHANGED <<back_end, model_type, session_id, pc, started, arg_content_list,
                   arg_tools, oracle_llm_content_list, user_message, sent, received,
                   response_messages, calls, outcome>>
    /\ UNCHANGED <<described, chat_ctx, call_id_to_tool_call_dictionary, events,
                   stream_error, tts_pc>>
    /\ UNCHANGED speechVars

\* run() raises (a backend error, a rejected reply): the exception leaves _run,
\* the counter stays
StreamRunRaises(stream) ==
    /\ task_pc[stream].at = "chat"
    /\ task_pc' = [task_pc EXCEPT ![stream].at = "failed"]
    /\ thread' = thread \ {stream}
    /\ UNCHANGED <<back_end, model_type, session_id, number_of_runs, pc, started,
                   arg_content_list, arg_tools, oracle_llm_content_list, user_message,
                   sent, received, response_messages, calls, outcome>>
    /\ UNCHANGED <<described, chat_ctx, call_id_to_tool_call_dictionary, events,
                   stream_error, tts_pc>>
    /\ UNCHANGED speechVars

\* synthesize_speech is scheduled and hands sync_call to a worker thread
\* (oracle_tts.py, line 102); at the await the loop's thread is free again
TtsCallsToThread ==
    /\ thread = {}
    /\ tts_pc = "ready"
    /\ tts_pc' = "in_flight"
    /\ UNCHANGED <<back_end, model_type, session_id, number_of_runs, pc, started,
                   arg_content_list, arg_tools, oracle_llm_content_list, user_message,
                   sent, received, response_messages, calls, outcome>>
    /\ UNCHANGED <<described, chat_ctx, call_id_to_tool_call_dictionary, events,
                   stream_error, thread, task_pc>>
    /\ UNCHANGED speechVars

\* sync_call returns in the worker thread (lines 67-100)
TtsRequestReturns ==
    /\ tts_pc = "in_flight"
    /\ tts_pc' = "returned"
    /\ UNCHANGED <<back_end, model_type, session_id, number_of_runs, pc, started,
                   arg_content_list, arg_tools, oracle_llm_content_list, user_message,
                   sent, received, response_messages, calls, outcome>>
    /\ UNCHANGED <<described, chat_ctx, call_id_to_tool_call_dictionary, events,
                   stream_error, thread, task_pc>>
    /\ UNCHANGED speechVars

\* the loop resumes synthesize_speech, which returns the audio (line 102)
TtsResumes ==
    /\ thread = {}
    /\ tts_pc = "returned"
    /\ tts_pc' = "done"
    /\ UNCHANGED <<back_end, model_type, session_id, number_of_runs, pc, started,
                   arg_content_list, arg_tools, oracle_llm_content_list, user_message,
                   sent, received, response_messages, calls, outcome>>
    /\ UNCHANGED <<described, chat_ctx, call_id_to_tool_call_dictionary, events,
                   stream_error, thread, task_pc>>
    /\ UNCHANGED speechVars

EventLoopNext ==
    \/ \E stream \in Streams : StreamCallsRun(stream)
    \/ \E stream \in Streams : StreamRunReturns(stream)
    \/ \E stream \in Streams : StreamRunRaises(stream)
    \/ TtsCallsToThread
    \/ TtsRequestReturns
    \/ TtsResumes

EventLoopSpec == Init /\ [][EventLoopNext]_vars

(***************************************************************************)
(* json.loads for the JSON texts the model uses: an object whose members   *)
(* are strings, integers, true, false and null, or one such value on its   *)
(* own, with blanks between the tokens.  Strings may hold the escapes \",  *)
(* \\, \/ and \n.  Arrays, nested objects and fractions are not used by    *)
(* the model's inputs.  The result of a parser is [ok, value, rest].       *)
(***************************************************************************)
JsonFail == [ok |-> FALSE, value |-> NoneValue, rest |-> <<>>]
JsonOk(value, rest) == [ok |-> TRUE, value |-> value, rest |-> rest]

\* the characters of a string behind its opening quote
RECURSIVE JsonChars(_, _)
JsonChars(s, text) ==
    IF s = <<>> THEN JsonFail
    ELSE IF Head(s) = "\"" THEN JsonOk(StrValue(text), Tail(s))
    ELSE IF Head(s) = "\n" THEN JsonFail
    ELSE IF Head(s) = "\\"
    THEN IF Len(s) >= 2 /\ s[2] \in {"\"", "\\", "/"}
         THEN JsonChars(SliceFrom(s, 2), Append(text, s[2]))
         ELSE IF Len(s) >= 2 /\ s[2] = "n"
         THEN JsonChars(SliceFrom(s, 2), Append(text, "\n"))
         ELSE JsonFail
    ELSE JsonChars(Tail(s), Append(text, Head(s)))

JsonDigits(negative, ds, rest) ==
    IF ds = <<>> \/ (Len(ds) > 1 /\ Head(ds) = "0") THEN JsonFail
    ELSE IF rest # <<>> /\ Head(rest) \in NameStart \cup {"."} THEN JsonFail
    ELSE JsonOk(IntValue(IF negative THEN 0 - DecimalValue(ds) ELSE DecimalValue(ds)), rest)

JsonUnsigned(negative, s) ==
    JsonDigits(negative, SubSeq(s, 1, PrefixLen(s, Digits)), SliceFrom(s, PrefixLen(s, Digits)))

JsonNumber(s) ==
    IF Head(s) = "-" THEN JsonUnsigned(TRUE, Tail(s)) ELSE JsonUnsigned(FALSE, s)

JsonWord(s) ==
    IF PrefixLen(s, NameChar) = 4 /\ startswith(s, <<"t","r","u","e">>)
    THEN JsonOk(BoolValue(TRUE), SliceFrom(s, 4))
    ELSE IF PrefixLen(s, NameChar) = 5 /\ startswith(s, <<"f","a","l","s","e">>)
    THEN JsonOk(BoolValue(FALSE), SliceFrom(s, 5))
    ELSE IF PrefixLen(s, NameChar) = 4 /\ startswith(s, <<"n","u","l","l">>)
    THEN JsonOk(NoneValue, SliceFrom(s, 4))
    ELSE JsonFail

JsonValue(s) ==
    IF s = <<>> THEN JsonFail
    ELSE IF Head(s) = "\"" THEN JsonChars(Tail(s), <<>>)
    ELSE IF Head(s) \in Digits \cup {"-"} THEN JsonNumber(s)
    ELSE JsonWord(s)

JsonNoMembers == [ok |-> FALSE, members |-> <<>>, rest |-> <<>>]

RECURSIVE JsonMembers(_, _)
\* behind the value of a member: a comma and the next member, or the brace
JsonAfterValue(key, value, next, members) ==
    IF ~ value.ok \/ next = <<>> THEN JsonNoMembers
    ELSE IF Head(next) = "}"
    THEN [ok |-> TRUE,
          members |-> Append(members, [key |-> key.value.s, value |-> value.value]),
          rest |-> Tail(next)]
    ELSE IF Head(next) = ","
    THEN JsonMembers(lstrip(Tail(next)),
                     Append(members, [key |-> key.value.s, value |-> value.value]))
    ELSE JsonNoMembers

\* behind the name of a member: the colon and the value
JsonAfterKey(key, colon, members) ==
    IF ~ key.ok \/ colon = <<>> \/ Head(colon) # ":" THEN JsonNoMembers
    ELSE JsonAfterValue(key, JsonValue(lstrip(Tail(colon))),
                        lstrip(JsonValue(lstrip(Tail(colon))).rest), members)

\* s at the name of a member; members are the members read so far
JsonMembers(s, members) ==
    IF s = <<>> \/ Head(s) # "\"" THEN JsonNoMembers
    ELSE JsonAfterKey(JsonChars(Tail(s), <<>>), lstrip(JsonChars(Tail(s), <<>>).rest),
                      members)

JsonRaises ==
    [error |-> Raised("JSONDecodeError", <<>>), is_object |-> FALSE, members |-> <<>>,
     value |-> NoneValue]
JsonLoaded(is_object, members, value) ==
    [error |-> NoError, is_object |-> is_object, members |-> members, value |-> value]

JsonObject(body, read) ==
    IF body # <<>> /\ Head(body) = "}"
    THEN IF lstrip(Tail(body)) = <<>> THEN JsonLoaded(TRUE, <<>>, NoneValue) ELSE JsonRaises
    ELSE IF read.ok /\ lstrip(read.rest) = <<>>
    THEN JsonLoaded(TRUE, read.members, NoneValue)
    ELSE JsonRaises

JsonScalar(read) ==
    IF read.ok /\ lstrip(read.rest) = <<>> THEN JsonLoaded(FALSE, <<>>, read.value)
    ELSE JsonRaises

\* [error, is_object, members, value]: members is the list of [key, value] of an
\* object in the order of the text
json_loads(text) ==
    IF lstrip(text) = <<>> THEN JsonRaises
    ELSE IF Head(lstrip(text)) = "{"
    THEN JsonObject(lstrip(Tail(lstrip(text))),
                    JsonMembers(lstrip(Tail(lstrip(text))), <<>>))
    ELSE JsonScalar(JsonValue(lstrip(text)))

(***************************************************************************)
(* The LLM plugin for LiveKit (oracle_llm_livekit_plugin.py).  A turn is   *)
(* one DerivedLLMStream._run (lines 128-213): the transcript is rebuilt    *)
(* from the chat context, run() is called, and one chunk is sent for the   *)
(* reply.  The scheduling of the turns is the subject of EventLoopSpec;    *)
(* here the turns follow each other.                                       *)
(***************************************************************************)
\* the items of a chat context (livekit.agents.llm.ChatContext._items)
ChatMessage(role, content) ==
    [type |-> "message", role |-> role, content |-> content, call_id |-> 0,
     output |-> <<>>]
FunctionCall(call_id) ==
    [type |-> "function_call", role |-> "", content |-> <<>>, call_id |-> call_id,
     output |-> <<>>]
FunctionCallOutput(call_id, output) ==
    [type |-> "function_call_output", role |-> "", content |-> <<>>,
     call_id |-> call_id, output |-> output]

TEXT_KEY ==
    <<"t","e","x","t">>
THE_FUNCTION_RESULT_OF ==
    <<"T","h","e"," ","f","u","n","c","t","i","o","n"," ","r","e","s","u","l","t"," ","o",
      "f"," ">>
IS_COLON ==
    <<" ","i","s",":"," ">>

\* lines 144-145, with loaded the outcome of json.loads(chat_message.output), and
\* the str that line 150 needs for its concatenation: [error, text]
OutputMessage(loaded) ==
    LET hits == {i \in 1..Len(loaded.members) : loaded.members[i].key = TEXT_KEY}
        last == CHOOSE i \in hits : \A j \in hits : j <= i
    IN  IF loaded.error # NoError THEN [error |-> loaded.error, text |-> <<>>]
        ELSE IF ~ loaded.is_object THEN [error |-> Raised("TypeError", <<>>), text |-> <<>>]
        ELSE IF hits = {} THEN [error |-> Raised("KeyError", <<>>), text |-> <<>>]
        ELSE IF loaded.members[last].value.kind # "str"
        THEN [error |-> Raised("TypeError", <<>>), text |-> <<>>]
        ELSE [error |-> NoError, text |-> loaded.members[last].value.s]

\* lines 147-151: the recorded call as an assistant item, its result as a system item
OutputPair(tool_call, message) ==
    <<OracleLLMContent(tool_call, CONTENT_TYPE_STRING, ROLE_ASSISTANT),
      OracleLLMContent(THE_FUNCTION_RESULT_OF \o tool_call \o IS_COLON \o message,
                       CONTENT_TYPE_STRING, ROLE_SYSTEM)>>

\* lines 133-136: one item per element of the content of a message
MessageItems(chat_message) ==
    [i \in 1..Len(chat_message.content) |->
        OracleLLMContent(chat_message.content[i], CONTENT_TYPE_STRING, chat_message.role)]

\* lines 129-151: [error, list], the exception of line 144, 145 or 150 or the list
RECURSIVE ContentListOf(_, _, _)
AfterOutput(items, dictionary, content_list, message) ==
    IF message.error # NoError THEN [error |-> message.error, list |-> content_list]
    ELSE ContentListOf(Tail(items), dictionary,
                       content_list \o OutputPair(dictionary[Head(items).call_id],
                                                  message.text))

ContentListOf(items, dictionary, content_list) ==
    IF items = <<>> THEN [error |-> NoError, list |-> content_list]
    ELSE IF Head(items).type = "message"
    THEN ContentListOf(Tail(items), dictionary, content_list \o MessageItems(Head(items)))
    ELSE IF Head(items).type = "function_call_output"
            /\ Head(items).call_id \in DOMAIN dictionary
    THEN AfterOutput(items, dictionary, content_list,
                     OutputMessage(json_loads(Head(items).output)))
    ELSE ContentListOf(Tail(items), dictionary, content_list)

\* lines 258-263
get_name_and_arguments_from_tool_call(tool_call) ==
    parse_function_call(strip(SliceFrom(tool_call, Len(TOOL_CALL_PREFIX))),
                        TOOL_CALL_DESCRIPTION)

\* lines 161-165: the index of the last tool without a callable that has the name
\* and as many parameters as the call has arguments, 0 when there is none
LastAdvertised(list, function_name, number_of_arguments) ==
    LET hits == {i \in 1..Len(list) : /\ list[i].function = "None"
                                      /\ list[i].name = function_name
                                      /\ Len(list[i].parameters) = number_of_arguments}
    IN  IF hits = {} THEN 0 ELSE CHOOSE i \in hits : \A j \in hits : i >= j

\* lines 171-180: the members i..n of the arguments text
RECURSIVE ParametersText(_, _, _)
ParametersText(parameters, function_parameters, i) ==
    IF i > Len(function_parameters) THEN <<>>
    ELSE (IF i > 1 THEN <<",">> ELSE <<>>)
         \o <<"\"">> \o parameters[i].name \o <<"\"", ":">>
         \o (IF parameters[i].type = "string" THEN <<"\"">> ELSE <<>>)
         \o str(function_parameters[i])
         \o (IF parameters[i].type = "string" THEN <<"\"">> ELSE <<>>)
         \o ParametersText(parameters, function_parameters, i + 1)

\* lines 170-181
FunctionParametersText(parameters, function_parameters) ==
    <<"{">> \o ParametersText(parameters, function_parameters, 1) \o <<"}">>

\* the chunks sent on the event channel (lines 187-205 and 208-213)
ToolCallChunk(name, arguments, call_id) ==
    [type |-> "tool_call", role |-> "assistant", content |-> <<>>, name |-> name,
     arguments |-> arguments, call_id |-> call_id]
TextChunk(content) ==
    [type |-> "text", role |-> ROLE_ASSISTANT, content |-> content, name |-> <<>>,
     arguments |-> <<>>, call_id |-> 0]

\* line 183: utils.shortuuid() gives an id that was not given before; the ids are
\* numbered in the order they are given
FreshCallId(dictionary) == Cardinality(DOMAIN dictionary) + 1

\* A variant of line 185 that keeps the entry of the newest call only.  C27 must
\* tell it from the code.
Recorded_NewestOnly(dictionary, call_id, tool_call) ==
    [id \in {call_id} |-> tool_call]
\* line 185: self._call_id_to_tool_call_dictionary[call_id] = tool_call
Recorded(dictionary, call_id, tool_call) ==
    [id \in DOMAIN dictionary \cup {call_id} |->
        IF id = call_id THEN tool_call ELSE dictionary[id]]

StreamRaises(dictionary, error) ==
    [events |-> <<>>, dictionary |-> dictionary, error |-> error]

\* lines 157-205, with parsed the outcome of line 159
ToolCallOutput(tools, dictionary, tool_call, parsed) ==
    LET index == LastAdvertised(tools.list, parsed.function_name,
                                Len(parsed.function_parameters))
    IN  IF parsed.error # NoError THEN StreamRaises(dictionary, parsed.error)
        \* line 162: iterating over None
        ELSE IF tools.is_none THEN StreamRaises(dictionary, Raised("TypeError", <<>>))
        ELSE IF index = 0
        THEN StreamRaises(dictionary, UnknownError(parsed.function_name, tool_call))
        ELSE [events |-> <<ToolCallChunk(parsed.function_name,
                                         FunctionParametersText(tools.list[index].parameters,
                                                                parsed.function_parameters),
                                         FreshCallId(dictionary))>>,
              dictionary |-> Recorded(dictionary, FreshCallId(dictionary), tool_call),
              error |-> NoError]

\* lines 155-213: what _run does with the reply of run(): [events, dictionary, error]
StreamOutput(reply, tools, dictionary) ==
    IF Len(reply) = 0 THEN [events |-> <<>>, dictionary |-> dictionary, error |-> NoError]
    ELSE IF Len(reply) = 1 /\ startswith(reply[1], TOOL_CALL_PREFIX)
    THEN ToolCallOutput(tools, dictionary, reply[1],
                        get_name_and_arguments_from_tool_call(reply[1]))
    ELSE [events |-> <<TextChunk(reply[1])>>, dictionary |-> dictionary,
          error |-> NoError]

\* Inputs of the turns: the tools of the streams of one plugin instance, the chat
\* contexts of the framework and the replies of the backend.
NAME_X ==
    <<"x">>
NAME_Y ==
    <<"y">>

\* an advertised tool add with two string parameters
ToolAddTextNoFunction ==
    OracleTool(NAME_ADD, DESCRIPTION_ADD, "None",
               <<OracleValue(NAME_X, DESCRIPTION_A, "string"),
                 OracleValue(NAME_Y, DESCRIPTION_B, "string")>>)
StreamRegistries ==
    {NoTools,
     ToolList(<<ToolAddNoFunction>>),
     ToolList(<<ToolAdd, ToolSubNoFunction>>),
     ToolList(<<ToolAddTextNoFunction>>),
     ToolList(<<ToolAddNoFunction, ToolAddTextNoFunction>>)}

OUTPUT_FIVE ==
    <<"{","\"","t","y","p","e","\"",":","\"","t","e","x","t","\"",",","\"","t","e","x",
      "t","\"",":","\"","5","\"","}">>
OUTPUT_PLAIN ==
    <<"n","o"," ","s","u","c","h"," ","c","i","t","y">>

\* a first question; a context with the result of the call of id 1; a context
\* with a result that is no JSON text
ChatContexts ==
    {<<ChatMessage(ROLE_USER, <<TEXT_QUESTION>>)>>,
     <<ChatMessage(ROLE_SYSTEM, <<TEXT_BRIEF>>), ChatMessage(ROLE_USER, <<TEXT_HI, TEXT_FIVE>>),
       FunctionCall(1), FunctionCallOutput(1, OUTPUT_FIVE),
       ChatMessage(ROLE_USER, <<TEXT_QUESTION>>)>>,
     <<ChatMessage(ROLE_USER, <<TEXT_HI>>), FunctionCallOutput(1, OUTPUT_PLAIN)>>}

CALL_ADD_TRUE ==
    <<"a","d","d","(","T","r","u","e",",","3",")">>
CALL_SUB_STRINGS ==
    <<"s","u","b","(","\"","a","\"",",","\"","b","\"",")">>

StreamSegments ==
    {TEXT_HI, Invocation(CALL_ADD), Invocation(CALL_ADD_ONE), Invocation(CALL_ADD_TRUE),
     Invocation(CALL_ADD_STRINGS), Invocation(CALL_SUB_STRINGS),
     <<" ">> \o Invocation(CALL_ADD)}
StreamLlmReplies ==
    {<<>>, <<TEXT_HI, TEXT_FIVE>>, <<TEXT_HI, Invocation(CALL_ADD)>>}
        \cup {<<segment>> : segment \in StreamSegments}

\* LLM.__init__ with the additional tools, and the tools of its streams (line 125)
StreamInit ==
    /\ Constructed
    /\ arg_tools \in StreamRegistries
    /\ SpeechInit

\* _run up to the call of run() (lines 129-153), with built the transcript of
\* lines 129-151; an exception of lines 144-150 ends the turn before run()
StreamCallsRunWith(items, built) ==
    /\ pc = "idle"
    /\ started < MaxRuns
    /\ chat_ctx' = items
    /\ events' = <<>>
    /\ stream_error' = built.error
    /\ IF built.error # NoError
       THEN /\ outcome' = NoOutcome
            /\ UNCHANGED <<back_end, model_type, session_id, number_of_runs, pc, started,
                           arg_content_list, arg_tools, oracle_llm_content_list,
                           user_message, sent, received, response_messages, calls>>
       ELSE IF back_end = BACK_END_GEN_AI_LLM THEN EnterRunForLlm(built.list, arg_tools)
       ELSE EnterRunForAgent(built.list, arg_tools)
    /\ UNCHANGED <<described, call_id_to_tool_call_dictionary, thread, task_pc, tts_pc>>
    /\ UNCHANGED speechVars

StreamTurn(items) ==
    StreamCallsRunWith(items, ContentListOf(items, call_id_to_tool_call_dictionary, <<>>))

\* what follows the backend's reply in _run: nothing while run() goes on, the
\* exception when run() raised, lines 155-213 when it returned
StreamSends(output) ==
    /\ events' = output.events
    /\ call_id_to_tool_call_dictionary' = output.dictionary
    /\ stream_error' = output.error

StreamAfterRun ==
    /\ IF pc' = "chat"
       THEN UNCHANGED <<events, call_id_to_tool_call_dictionary, stream_error>>
       ELSE IF outcome'.kind = "raise"
       THEN /\ stream_error' = outcome'.error
            /\ UNCHANGED <<events, call_id_to_tool_call_dictionary>>
       ELSE StreamSends(StreamOutput(outcome'.value, arg_tools,
                                     call_id_to_tool_call_dictionary))
    /\ UNCHANGED <<described, chat_ctx, thread, task_pc, tts_pc>>
    /\ UNCHANGED speechVars

StreamLlmChatReturns(reply) ==
    /\ pc = "chat"
    /\ back_end = BACK_END_GEN_AI_LLM
    /\ LlmProceed(reply, LlmIteration(oracle_llm_content_list, arg_tools, reply))
    /\ UNCHANGED <<back_end, model_type, session_id, started, arg_tools, user_message>>
    /\ StreamAfterRun

StreamAgentChatReturns(response_message) ==
    /\ pc = "chat"
    /\ back_end = BACK_END_GEN_AI_AGENT
    /\ AgentProceed(response_message,
                    AgentIteration(user_message, arg_tools, response_message))
    /\ UNCHANGED <<back_end, model_type, session_id, started, arg_content_list, arg_tools,
                   oracle_llm_content_list>>
    /\ StreamAfterRun

\* the backend call raises: the error leaves run() and _run
StreamChatFails ==
    /\ pc = "chat"
    /\ pc' = "idle"
    /\ outcome' = Failed(Raised("ServiceError", <<>>))
    /\ UNCHANGED <<back_end, model_type, session_id, number_of_runs, started,
                   arg_content_list, arg_tools, oracle_llm_content_list, user_message, sent,
                   received, response_messages, calls>>
    /\ StreamAfterRun

StreamNext ==
    \/ \E items \in ChatContexts : StreamTurn(items)
    \/ \E reply \in StreamLlmReplies : StreamLlmChatReturns(reply)
    \/ \E response_message \in StreamSegments : StreamAgentChatReturns(response_message)
    \/ StreamChatFails

StreamSpec == StreamInit /\ [][StreamNext]_vars

(***************************************************************************)
(* The audio cache (audio_cache.py).  A cache directory holds the index    *)
(* file and the audio files; an AudioCache object holds the index in       *)
(* memory.  json.dump (lines 87-88, 143-144) writes the index as a JSON    *)
(* object whose members are the keys, each with an object of one member,   *)
(* the file name; json.loads (line 34) reads the same dictionary back, the *)
(* keys and the file names being str.  The index file is therefore kept as *)
(* the dictionary it holds.  utils.shortuuid() gives a name not given      *)
(* before.                                                                 *)
(***************************************************************************)
\* line 170
form_key(text, voice, audio_rate, audio_channels, audio_bits) ==
    voice \o <<"\t">> \o IntToText(audio_rate) \o <<"\t">> \o IntToText(audio_channels)
          \o <<"\t">> \o IntToText(audio_bits) \o <<"\t">> \o text

\* the keyword arguments of get_audio_bytes and set_audio_bytes
CacheRequest(text, voice, audio_rate, audio_channels, audio_bits) ==
    [text |-> text, voice |-> voice, audio_rate |-> audio_rate,
     audio_channels |-> audio_channels, audio_bits |-> audio_bits]
NoRequest == CacheRequest(<<>>, <<>>, 0, 0, 0)

\* lines 62-68 and 118-124
KeyOf(request) ==
    form_key(request.text, request.voice, request.audio_rate, request.audio_channels,
             request.audio_bits)

\* dictionary[key] = value and del dictionary[key]
WithEntry(dictionary, key, value) ==
    [k \in DOMAIN dictionary \cup {key} |-> IF k = key THEN value ELSE dictionary[k]]
WithoutEntry(dictionary, key) == [k \in DOMAIN dictionary \ {key} |-> dictionary[k]]

\* lines 31-36: the index a new AudioCache loads
LoadedIndex(file) == IF file.exists THEN file.dictionary ELSE <<>>

\* lines 87-88 and 143-144: the index file after json.dump
WrittenIndex(file, dictionary, write_index_dictionary) ==
    IF write_index_dictionary THEN [exists |-> TRUE, dictionary |-> dictionary] ELSE file

\* A variant of lines 78-81 that leaves the index file alone when the audio
\* file is missing.  C35 must tell it from the code.
get_audio_bytes_NoWrite(dictionary, files, key) ==
    IF key \in DOMAIN dictionary
    THEN IF dictionary[key].audio_bytes_file_name \in DOMAIN files
         THEN [audio_bytes |-> Audio(files[dictionary[key].audio_bytes_file_name]),
               index_dictionary |-> dictionary, write_index_dictionary |-> FALSE]
         ELSE [audio_bytes |-> NoAudio, index_dictionary |-> WithoutEntry(dictionary, key),
               write_index_dictionary |-> FALSE]
    ELSE [audio_bytes |-> NoAudio, index_dictionary |-> dictionary,
          write_index_dictionary |-> FALSE]

\* lines 70-90: [audio_bytes, index_dictionary, write_index_dictionary]
get_audio_bytes(dictionary, files, key) ==
    IF key \in DOMAIN dictionary
    THEN IF dictionary[key].audio_bytes_file_name \in DOMAIN files
         THEN [audio_bytes |-> Audio(files[dictionary[key].audio_bytes_file_name]),
               index_dictionary |-> dictionary, write_index_dictionary |-> FALSE]
         ELSE [audio_bytes |-> NoAudio, index_dictionary |-> WithoutEntry(dictionary, key),
               write_index_dictionary |-> TRUE]
    ELSE [audio_bytes |-> NoAudio, index_dictionary |-> dictionary,
          write_index_dictionary |-> FALSE]

\* lines 126-144: [index_dictionary, audio_files, file_names,
\* write_index_dictionary]
set_audio_bytes(dictionary, files, names, key, audio_bytes) ==
    IF key \in DOMAIN dictionary
    THEN [index_dictionary |-> dictionary,
          audio_files |-> WithEntry(files, dictionary[key].audio_bytes_file_name, audio_bytes),
          file_names |-> names, write_index_dictionary |-> FALSE]
    ELSE [index_dictionary |->
              WithEntry(dictionary, key, [audio_bytes_file_name |-> names + 1]),
          audio_files |-> WithEntry(files, names + 1, audio_bytes),
          file_names |-> names + 1, write_index_dictionary |-> TRUE]

\* an entry of the log
Logged(op, request, key, audio_bytes, result) ==
    [op |-> op, request |-> request, key |-> key, audio_bytes |-> audio_bytes,
     result |-> result]

\* get_audio_bytes (lines 39-90) called with the request; got is the outcome
CacheGets(request, got) ==
    /\ index_dictionary' = got.index_dictionary
    /\ index_file' = WrittenIndex(index_file, got.index_dictionary,
                                  got.write_index_dictionary)
    /\ cache_log' = Append(cache_log,
                           Logged("get", request, KeyOf(request), <<>>, got.audio_bytes))
    /\ UNCHANGED <<audio_files, file_names>>

\* set_audio_bytes (lines 93-144) called with the request and the audio bytes
CacheSets(request, audio_bytes, set) ==
    /\ index_dictionary' = set.index_dictionary
    /\ audio_files' = set.audio_files
    /\ file_names' = set.file_names
    /\ index_file' = WrittenIndex(index_file, set.index_dictionary,
                                  set.write_index_dictionary)
    /\ cache_log' = Append(cache_log,
                           Logged("set", request, KeyOf(request), audio_bytes, NoAudio))

(***************************************************************************)
(* The cache used on its own: gets and sets on one directory, AudioCache   *)
(* objects opened on it one after the other, and audio files removed by    *)
(* someone else.                                                           *)
(***************************************************************************)
MaxCacheCalls == 3

\* oracle_tts_livekit_plugin.py, lines 16-18
REQUIRED_LIVE_KIT_AUDIO_RATE == 24000
REQUIRED_LIVE_KIT_AUDIO_CHANNELS == 1
REQUIRED_LIVE_KIT_AUDIO_BITS == 16

\* the default voice (oracle_tts_livekit_plugin.py, line 31), and a voice and a
\* text that hold a tab
VOICE_VICTORIA ==
    <<"V","i","c","t","o","r","i","a">>
VOICE_TABBED ==
    VOICE_VICTORIA \o <<"\t","2","4","0","0","0">>
TEXT_TABBED ==
    <<"1","6","\t","h","i">>

\* the requests of the TTS plugin for two texts, one of them at another rate, and
\* two requests whose voice or text holds a tab
CacheRequests ==
    {CacheRequest(TEXT_HI, VOICE_VICTORIA, REQUIRED_LIVE_KIT_AUDIO_RATE,
                  REQUIRED_LIVE_KIT_AUDIO_CHANNELS, REQUIRED_LIVE_KIT_AUDIO_BITS),
     CacheRequest(TEXT_FIVE, VOICE_VICTORIA, REQUIRED_LIVE_KIT_AUDIO_RATE,
                  REQUIRED_LIVE_KIT_AUDIO_CHANNELS, REQUIRED_LIVE_KIT_AUDIO_BITS),
     CacheRequest(TEXT_HI, VOICE_VICTORIA, 16000,
                  REQUIRED_LIVE_KIT_AUDIO_CHANNELS, REQUIRED_LIVE_KIT_AUDIO_BITS),
     CacheRequest(TEXT_TABBED, VOICE_VICTORIA, REQUIRED_LIVE_KIT_AUDIO_RATE,
                  REQUIRED_LIVE_KIT_AUDIO_CHANNELS, REQUIRED_LIVE_KIT_AUDIO_BITS),
     CacheRequest(TEXT_HI, VOICE_TABBED, REQUIRED_LIVE_KIT_AUDIO_CHANNELS,
                  REQUIRED_LIVE_KIT_AUDIO_BITS, REQUIRED_LIVE_KIT_AUDIO_BITS)}

\* audio bytes
AUDIO_ONE == <<82, 73>>
AUDIO_TWO == <<70>>
AudioData == {AUDIO_ONE, AUDIO_TWO}

CacheGet(request) ==
    /\ Len(cache_log) < MaxCacheCalls
    /\ CacheGets(request, get_audio_bytes(index_dictionary, audio_files, KeyOf(request)))
    /\ UNCHANGED <<adapterVars, hostVars, ttsVars, sttVars>>

CacheSet(request, audio_bytes) ==
    /\ Len(cache_log) < MaxCacheCalls
    /\ CacheSets(request, audio_bytes,
                 set_audio_bytes(index_dictionary, audio_files, file_names,
                                 KeyOf(request), audio_bytes))
    /\ UNCHANGED <<adapterVars, hostVars, ttsVars, sttVars>>

\* AudioCache.__init__ (lines 23-36): a new object on the directory takes the
\* place of the one before
CacheOpen ==
    /\ Len(cache_log) < MaxCacheCalls
    /\ index_dictionary' = LoadedIndex(index_file)
    /\ cache_log' = Append(cache_log, Logged("open", NoRequest, <<>>, <<>>, NoAudio))
    /\ UNCHANGED <<index_file, audio_files, file_names>>
    /\ UNCHANGED <<adapterVars, hostVars, ttsVars, sttVars>>

\* someone removes the audio file of an indexed key from the directory
AudioFileRemoved(key) ==
    /\ Len(cache_log) < MaxCacheCalls
    /\ key \in DOMAIN index_dictionary
    /\ index_dictionary[key].audio_bytes_file_name \in DOMAIN audio_files
    /\ audio_files' = WithoutEntry(audio_files, index_dictionary[key].audio_bytes_file_name)
    /\ cache_log' = Append(cache_log, Logged("remove", NoRequest, key, <<>>, NoAudio))
    /\ UNCHANGED <<index_dictionary, index_file, file_names>>
    /\ UNCHANGED <<adapterVars, hostVars, ttsVars, sttVars>>

CacheNext ==
    \/ \E request \in CacheRequests : CacheGet(request)
    \/ \E request \in CacheRequests, audio_bytes \in AudioData :
           CacheSet(request, audio_bytes)
    \/ CacheOpen
    \/ \E request \in CacheRequests : AudioFileRemoved(KeyOf(request))

CacheSpec == Init /\ [][CacheNext]_vars

(***************************************************************************)
(* The synthesize runs of the TTS plugin: DerivedTTSChunkedStream._run     *)
(* (oracle_tts_livekit_plugin.py, lines 70-104), one run at a time.  The   *)
(* run awaits the speech service at line 80; what the service gives is    *)
(* None (no response, or a status other than 200), or the audio bytes.     *)
(***************************************************************************)
MaxSyntheses == 3

\* TTS.__init__ with a cache directory (lines 53-56); the limit is the length of
\* one of the texts
AudioCacheFor(voice, maximum_text_length) ==
    [is_none |-> FALSE, voice |-> voice, maximum_text_length |-> maximum_text_length]
TtsConfigurations == {NoAudioCache, AudioCacheFor(VOICE_VICTORIA, Len(TEXT_HI))}

TtsTexts == {TEXT_FIVE, TEXT_HI, TEXT_BRIEF}
\* what synthesize_speech gives: None, or 16-bit samples (one, two, none)
ServiceResults ==
    {NoAudio, Audio(AUDIO_ONE), Audio(AUDIO_ONE \o AUDIO_TWO \o AUDIO_TWO), Audio(<<>>)}

TtsSpecInit ==
    /\ Constructed
    /\ arg_tools = NoTools
    /\ CacheInit
    /\ audio_cache \in TtsConfigurations
    /\ synthesis = NoSynthesis
    /\ SttInit

\* lines 72-77 and 84-90: the request of the plugin for a text
TtsRequest(text) ==
    CacheRequest(text, audio_cache.voice, REQUIRED_LIVE_KIT_AUDIO_RATE,
                 REQUIRED_LIVE_KIT_AUDIO_CHANNELS, REQUIRED_LIVE_KIT_AUDIO_BITS)

\* lines 97-101: the frame made of the audio bytes
AudioFrame(data) ==
    [data |-> data, sample_rate |-> REQUIRED_LIVE_KIT_AUDIO_RATE,
     num_channels |-> REQUIRED_LIVE_KIT_AUDIO_CHANNELS,
     samples_per_channel |->
         ((Len(data) \div 2) \div REQUIRED_LIVE_KIT_AUDIO_CHANNELS)
             \div REQUIRED_LIVE_KIT_AUDIO_CHANNELS]

\* lines 93-104: the frames pushed for the audio bytes
Emitted(audio_bytes) ==
    IF audio_bytes.is_none THEN <<>> ELSE <<AudioFrame(audio_bytes.data)>>

\* A variant of lines 82-83 that stores texts shorter than the limit only.  C37
\* must tell it from the code.
ShouldStore_Shorter(audio_bytes, cache, text) ==
    /\ ~ audio_bytes.is_none
    /\ ~ cache.is_none
    /\ Len(text) < cache.maximum_text_length

\* lines 82-83
ShouldStore(audio_bytes, cache, text) ==
    /\ ~ audio_bytes.is_none
    /\ ~ cache.is_none
    /\ Len(text) <= cache.maximum_text_length

\* lines 71-80 with a cache, got being what get_audio_bytes gave: the audio of the
\* cache is pushed, or the service is asked
TtsRunWithCache(text, got) ==
    /\ CacheGets(TtsRequest(text), got)
    /\ synthesis' =
           [at |-> IF got.audio_bytes.is_none THEN "service" ELSE "done",
            runs |-> synthesis.runs + 1, input_text |-> text, cached |-> got.audio_bytes,
            requests |-> IF got.audio_bytes.is_none THEN 1 ELSE 0,
            service |-> <<>>, frames |-> Emitted(got.audio_bytes), error |-> NoError]

\* lines 71-79 without a cache: line 72 is skipped, so the local audio_bytes has
\* no value when line 79 reads it, and the UnboundLocalError leaves _run
TtsRunWithoutCache(text) ==
    /\ synthesis' =
           [at |-> "done", runs |-> synthesis.runs + 1, input_text |-> text,
            cached |-> NoAudio, requests |-> 0, service |-> <<>>, frames |-> <<>>,
            error |-> Raised("UnboundLocalError", <<>>)]
    /\ UNCHANGED cacheVars

\* the framework runs the stream synthesize(text) returned
TtsRunStarts(text) ==
    /\ synthesis.at \in {"ready", "done"}
    /\ synthesis.runs < MaxSyntheses
    /\ IF audio_cache.is_none THEN TtsRunWithoutCache(text)
       ELSE TtsRunWithCache(text, get_audio_bytes(index_dictionary, audio_files,
                                                  KeyOf(TtsRequest(text))))
    /\ UNCHANGED <<adapterVars, hostVars, audio_cache, sttVars>>

\* synthesize_speech returns (line 80): the audio is stored (lines 82-90) and
\* pushed (lines 93-104)
TtsServiceReturns(audio_bytes) ==
    /\ synthesis.at = "service"
    /\ IF ShouldStore(audio_bytes, audio_cache, synthesis.input_text)
       THEN CacheSets(TtsRequest(synthesis.input_text), audio_bytes.data,
                      set_audio_bytes(index_dictionary, audio_files, file_names,
                                      KeyOf(TtsRequest(synthesis.input_text)),
                                      audio_bytes.data))
       ELSE UNCHANGED cacheVars
    /\ synthesis' = [synthesis EXCEPT !.at = "done", !.service = <<audio_bytes>>,
                                      !.frames = Emitted(audio_bytes)]
    /\ UNCHANGED <<adapterVars, hostVars, audio_cache, sttVars>>

\* synthesize_speech raises (line 80): the exception leaves _run
TtsServiceRaises ==
    /\ synthesis.at = "service"
    /\ synthesis' = [synthesis EXCEPT !.at = "done",
                                      !.error = Raised("ServiceError", <<>>)]
    /\ UNCHANGED <<adapterVars, hostVars, cacheVars, audio_cache, sttVars>>

TtsNext ==
    \/ \E text \in TtsTexts : TtsRunStarts(text)
    \/ \E audio_bytes \in ServiceResults : TtsServiceReturns(audio_bytes)
    \/ TtsServiceRaises

TtsSpec == TtsSpecInit /\ [][TtsNext]_vars

(***************************************************************************)
(* The speech-recognition wrapper OracleSTT (oracle_stt.py) and             *)
(* get_speech_event of the STT plugin.  The wrapper is the listener of its *)
(* clients; the library calls the listener back from a client whose        *)
(* connect() has been called.  The callbacks, the connect tasks and the    *)
(* sender task run on one event loop and interleave at the awaits.  The    *)
(* audio on its way to the service and the results on their way to the     *)
(* plugin share nothing but the connection, and are explored apart.        *)
(***************************************************************************)
MaxClients == 3
MaxChunks == 2
MaxResults == 2

\* A variant of real_time_speech_client_close that drops the client without
\* closing it.  C38 must tell it from the code.
real_time_speech_client_close_Dropped(all, client) == all

\* real_time_speech_client_close (lines 133-137): the clients after it
real_time_speech_client_close(all, client) ==
    IF client = <<>> THEN all ELSE [all EXCEPT ![client[1]].close_flag = TRUE]

\* real_time_speech_client_open (lines 90-130): the client held is closed and the
\* flag reset (line 91), a new client is made (lines 127-128) and a task that will
\* connect is created (line 130)
real_time_speech_client_open ==
    /\ clients' = Append(real_time_speech_client_close(clients, real_time_speech_client),
                         NewClient)
    /\ real_time_speech_client' = <<Len(clients) + 1>>
    /\ connected' = FALSE
    /\ connect_tasks' = connect_tasks + 1

\* connect_background_task (lines 140-141) runs: connect() is called on the client
\* held when the task runs, not on the one held when the task was created
ConnectTaskRuns ==
    /\ connect_tasks > 0
    /\ real_time_speech_client # <<>>
    /\ connect_tasks' = connect_tasks - 1
    /\ clients' = [clients EXCEPT ![real_time_speech_client[1]].connecting = TRUE]
    /\ UNCHANGED <<real_time_speech_client, connected, failures, audioVars, resultVars>>
    /\ UNCHANGED <<adapterVars, hostVars, cacheVars, ttsVars>>

\* on_connect_message (lines 173-175), from an open client that is connecting
OnConnectMessage(i) ==
    /\ clients[i].connecting
    /\ ~ clients[i].close_flag
    /\ ~ clients[i].connect_message
    /\ connected' = TRUE
    /\ clients' = [clients EXCEPT ![i].connect_message = TRUE]
    /\ UNCHANGED <<real_time_speech_client, connect_tasks, failures, audioVars, resultVars>>
    /\ UNCHANGED <<adapterVars, hostVars, cacheVars, ttsVars>>

\* on_error (lines 161-164)
OnError(i) ==
    /\ clients[i].connecting
    /\ Len(clients) < MaxClients
    /\ failures' = failures + 1
    /\ real_time_speech_client_open
    /\ UNCHANGED <<audioVars, resultVars>>
    /\ UNCHANGED <<adapterVars, hostVars, cacheVars, ttsVars>>

\* on_network_event (lines 154-157)
OnNetworkEvent(i) ==
    /\ clients[i].connecting
    /\ Len(clients) < MaxClients
    /\ failures' = failures + 1
    /\ real_time_speech_client_open
    /\ UNCHANGED <<audioVars, resultVars>>
    /\ UNCHANGED <<adapterVars, hostVars, cacheVars, ttsVars>>

\* the transcriptions of result messages, and the queued SpeechResult (lines
\* 235-242)
Transcription(is_final, text) == [isFinal |-> is_final, transcription |-> text]
SpeechResult(is_final, text) == [is_final |-> is_final, text |-> text]
ResultMessages ==
    {<<Transcription(FALSE, TEXT_HI)>>, <<Transcription(TRUE, TEXT_HI)>>,
     <<Transcription(FALSE, TEXT_FIVE), Transcription(TRUE, TEXT_BRIEF)>>}

\* A variant of line 199 that queues final results only.  C39 must tell it from
\* the code.
ShouldQueue_FinalOnly(is_final, flag) == is_final

\* line 199
ShouldQueue(is_final, flag) == is_final \/ flag

\* on_result (lines 184-203), from a client that has connected: the first
\* transcription of the message is read (line 187)
OnResult(i, result) ==
    /\ clients[i].connect_message
    /\ Len(results) < MaxResults
    /\ results' = Append(results, result)
    /\ speech_result_queue' =
           IF ShouldQueue(result[1].isFinal, return_partial_results)
           THEN Append(speech_result_queue,
                       SpeechResult(result[1].isFinal, result[1].transcription))
           ELSE speech_result_queue
    /\ UNCHANGED <<connectionVars, audioVars, speech_events, return_partial_results>>
    /\ UNCHANGED <<adapterVars, hostVars, cacheVars, ttsVars>>

\* the event of a speech result (oracle_stt_livekit_plugin.py, lines 73-81)
SpeechEvent(speech_result) ==
    [type |-> IF speech_result.is_final THEN "FINAL_TRANSCRIPT" ELSE "INTERIM_TRANSCRIPT",
     language |-> "multi", text |-> speech_result.text]

\* get_speech_event (oracle_stt_livekit_plugin.py, lines 65-83): None on an empty
\* queue, else the event of the first result of the queue
GetSpeechEvent ==
    /\ IF speech_result_queue = <<>>
       THEN UNCHANGED <<speech_result_queue, speech_events>>
       ELSE /\ speech_events' = Append(speech_events, SpeechEvent(Head(speech_result_queue)))
            /\ speech_result_queue' = Tail(speech_result_queue)
    /\ UNCHANGED <<connectionVars, audioVars, results, return_partial_results>>
    /\ UNCHANGED <<adapterVars, hostVars, cacheVars, ttsVars>>

\* add_audio_bytes (lines 82-83)
AddAudioBytes ==
    /\ added < MaxChunks
    /\ added' = added + 1
    /\ audio_bytes_queue' = Append(audio_bytes_queue, added + 1)
    /\ UNCHANGED <<connectionVars, sender, sent_audio, resultVars>>
    /\ UNCHANGED <<adapterVars, hostVars, cacheVars, ttsVars>>

\* the test of line 146
ReadyToSend ==
    /\ real_time_speech_client # <<>>
    /\ ~ clients[real_time_speech_client[1]].close_flag
    /\ connected

\* line 148: the first chunk of the queue is taken and send_data is called on the
\* client held at that moment (None has no send_data: the task ends)
TakeAndSend ==
    /\ audio_bytes_queue' = Tail(audio_bytes_queue)
    /\ IF real_time_speech_client = <<>>
       THEN sender' = "ended" /\ UNCHANGED sent_audio
       ELSE /\ sender' = "send"
            /\ sent_audio' =
                   Append(sent_audio,
                          [audio_bytes |-> Head(audio_bytes_queue),
                           client |-> real_time_speech_client[1],
                           close_flag |-> clients[real_time_speech_client[1]].close_flag,
                           connect_message |->
                               clients[real_time_speech_client[1]].connect_message])

\* add_audio_bytes_background_task at line 146: it sleeps (line 150), or it takes
\* a chunk and sends it (lines 147-148; queue.get() does not suspend when the
\* queue has an item), or it suspends in queue.get() on the empty queue
SenderTests ==
    /\ sender = "test"
    /\ IF ~ ReadyToSend
       THEN sender' = "sleep" /\ UNCHANGED <<audio_bytes_queue, sent_audio>>
       ELSE IF audio_bytes_queue = <<>>
            THEN sender' = "get" /\ UNCHANGED <<audio_bytes_queue, sent_audio>>
            ELSE TakeAndSend
    /\ UNCHANGED <<connectionVars, added, resultVars>>
    /\ UNCHANGED <<adapterVars, hostVars, cacheVars, ttsVars>>

\* queue.get() of line 147 resumes when the queue has an item; line 148 follows
\* without a new test
SenderGets ==
    /\ sender = "get"
    /\ audio_bytes_queue # <<>>
    /\ TakeAndSend
    /\ UNCHANGED <<connectionVars, added, resultVars>>
    /\ UNCHANGED <<adapterVars, hostVars, cacheVars, ttsVars>>

\* send_data returns (line 148)
SenderSent ==
    /\ sender = "send"
    /\ sender' = "test"
    /\ UNCHANGED <<connectionVars, audio_bytes_queue, added, sent_audio, resultVars>>
    /\ UNCHANGED <<adapterVars, hostVars, cacheVars, ttsVars>>

\* the sleep of line 150 ends
SenderWakes ==
    /\ sender = "sleep"
    /\ sender' = "test"
    /\ UNCHANGED <<connectionVars, audio_bytes_queue, added, sent_audio, resultVars>>
    /\ UNCHANGED <<adapterVars, hostVars, cacheVars, ttsVars>>

\* one adapter, the speech plugins constructed with the given
\* return_partial_results
SttConstructed(flags) ==
    /\ Constructed
    /\ back_end = BACK_END_GEN_AI_LLM
    /\ model_type = "GENERIC"
    /\ arg_tools = NoTools
    /\ CacheInit
    /\ TtsInit
    /\ \E flag \in flags : SttInitWith(flag)

\* the connection of the wrapper: the connect tasks and the callbacks of the
\* library about the connection
ConnectionNext ==
    \/ ConnectTaskRuns
    \/ \E i \in 1..Len(clients) : OnConnectMessage(i)
    \/ \E i \in 1..Len(clients) : OnError(i)
    \/ \E i \in 1..Len(clients) : OnNetworkEvent(i)

\* the connection and the audio on its way to the service
SttNext ==
    \/ ConnectionNext
    \/ AddAudioBytes
    \/ SenderTests
    \/ SenderGets
    \/ SenderSent
    \/ SenderWakes

SttSpec == SttConstructed({FALSE}) /\ [][SttNext]_vars

\* the connection and the results on their way to the plugin
SttResultNext ==
    \/ ConnectionNext
    \/ \E i \in 1..Len(clients) : \E result \in ResultMessages : OnResult(i, result)
    \/ GetSpeechEvent

SttResultSpec == SttConstructed(BOOLEAN) /\ [][SttResultNext]_vars

(***************************************************************************)
(* Properties of run().                                                    *)
(*                                                                         *)
(* A finished run is described by its history: received holds the replies  *)
(* of the backend in order, sent the requests, calls the callable          *)
(* invocations.  Every executed invocation is followed by a request, so    *)
(* the k-th invocation belongs to the k-th reply, and the last reply led   *)
(* to an invocation exactly when Len(calls) = Len(received).               *)
(***************************************************************************)
Finished == pc = "idle" /\ outcome.kind # "none"
LastReply == received[Len(received)]
\* run() ended while handling the last reply (not in a failed backend call)
HandledReply == Finished /\ received # <<>> /\ outcome.error.type # "ServiceError"
\* the last reply led to no invocation of a callable
NothingInvoked == Len(calls) < Len(received)

MarkerCount(segment) == count(segment, TOOL_CALL_PREFIX)
MarkerSegments(reply) == {i \in 1..Len(reply) : MarkerCount(reply[i]) >= 1}
MarkerAtStartOnly(segment) ==
    startswith(segment, TOOL_CALL_PREFIX) /\ MarkerCount(segment) = 1
SingleInvocation(reply) == Len(reply) = 1 /\ MarkerAtStartOnly(reply[1])
\* the reply with the marker and the surrounding whitespace stripped
CallTextOf(segment) == strip(SubSeq(segment, Len(TOOL_CALL_PREFIX) + 1, Len(segment)))
ParsedCall(segment) == parse_function_call(CallTextOf(segment), TOOL_CALL_DESCRIPTION)
\* the first tool of the list with the name
FirstNamed(list, name) ==
    CHOOSE i \in 1..Len(list) :
        list[i].name = name /\ \A j \in 1..(i - 1) : list[j].name # name
HasTool(registry, name) ==
    ~ registry.is_none /\ \E i \in 1..Len(registry.list) : registry.list[i].name = name

\* the two transcript items an executed invocation adds
ExpectedPair(call, registry) ==
    <<[content_data |-> call.tool_call, content_type |-> "string", role |-> "assistant"],
      [content_data |->
           <<"T","h","e"," ","f","u","n","c","t","i","o","n"," ","r","e","s","u","l","t"," ","o",
             "f"," ">>
           \o call.tool_call \o <<" ", "i", "s", ":", " ">>
           \o str(CallFunction(registry.list[call.tool].function, call.parameters).value),
       content_type |-> "string", role |-> "system"]>>
RECURSIVE ExpectedPairs(_, _)
ExpectedPairs(invocations, registry) ==
    IF invocations = <<>> THEN <<>>
    ELSE ExpectedPair(Head(invocations), registry)
         \o ExpectedPairs(Tail(invocations), registry)
\* the messages and the text lines that carry items
ItemMessages(items) ==
    [i \in 1..Len(items) |->
        [role |-> IF items[i].role = "assistant" THEN "ASSISTANT" ELSE "SYSTEM",
         text |-> items[i].content_data]]
RECURSIVE WithLines(_, _)
WithLines(text, items) ==
    IF items = <<>> THEN text
    ELSE WithLines((IF text = <<>> THEN <<>> ELSE text \o <<"\n">>)
                   \o Head(items).content_data, Tail(items))

\* C1: a callable is invoked only for a reply that is exactly one segment which
\* begins with the marker and holds it once; a reply that holds the marker in any
\* other way, or whose call text the parser rejects, invokes nothing and makes
\* run() end with an error.
C1_InvokedOnlyForSingleInvocation ==
    /\ \A k \in 1..Len(calls) :
           /\ k <= Len(received)
           /\ SingleInvocation(received[k])
           /\ received[k][1] = calls[k].tool_call
    /\ ( /\ HandledReply
         /\ MarkerSegments(LastReply) # {}
         /\ ~ (SingleInvocation(LastReply) /\ ParsedCall(LastReply[1]).error = NoError) )
       => (outcome.kind = "raise" /\ NothingInvoked)

\* a run that executed one invocation and returned the next reply
C1_Witness ==
    Finished /\ outcome.kind = "return" /\ Len(calls) = 1 /\ Len(received) = 2

\* C2: in the stateless adapter every executed invocation appends the assistant
\* echo of the raw reply and then the system item "The function result of <raw
\* reply> is: <str(result)>"; request k+1 carries what request 1 carried followed
\* by the first k pairs; run() returns the first reply that executed nothing.
C2_EchoAndResultPairs ==
    back_end = BACK_END_GEN_AI_LLM =>
        /\ (pc = "chat" \/ (Finished /\ outcome.kind = "return")) =>
               oracle_llm_content_list
                   = arg_content_list \o ExpectedPairs(calls, arg_tools)
        /\ pc = "chat" => Len(sent) = Len(calls) + 1 /\ Len(received) = Len(calls)
        /\ (pc = "chat" \/ (Finished /\ outcome.kind = "return")) =>
               \A k \in 0..(Len(sent) - 1) :
                   LET pairs == ExpectedPairs(SubSeq(calls, 1, k), arg_tools)
                   IN  IF model_type = "GENERIC"
                       THEN sent[k + 1].messages = sent[1].messages \o ItemMessages(pairs)
                       ELSE sent[k + 1].message = WithLines(sent[1].message, pairs)
        /\ (Finished /\ outcome.kind = "return") =>
               /\ Len(received) = Len(calls) + 1
               /\ Len(sent) = Len(received)
               /\ outcome.value = LastReply
               /\ \A k \in 1..Len(calls) : received[k] = <<calls[k].tool_call>>

\* Scenario A: add(2,3) is executed once, the second request carries the pair,
\* the second reply "5" is returned
C2_Witness ==
    /\ back_end = BACK_END_GEN_AI_LLM /\ model_type = "GENERIC"
    /\ Finished
    /\ arg_content_list = <<OracleLLMContent(TEXT_QUESTION, CONTENT_TYPE_STRING, ROLE_USER)>>
    /\ arg_tools = ToolList(<<ToolAdd>>)
    /\ received = <<(<<Invocation(CALL_ADD)>>), (<<TEXT_FIVE>>)>>
    /\ Len(calls) = 1
    /\ calls[1].parameters = <<IntValue(2), IntValue(3)>>
    /\ Len(sent) = 2
    /\ sent[2].messages[4].text =
           <<"T","h","e"," ","f","u","n","c","t","i","o","n"," ","r","e","s","u","l","t"," ","o",
             "f"," ","T","O","O","L","-","C","A","L","L",":"," ","a","d","d","(","2",",","3",")",
             " ","i","s",":"," ","5">>
    /\ outcome = Returned(<<TEXT_FIVE>>)

\* C3: an invocation that resolves to a tool without a callable ends run() at once:
\* the raw reply is returned as a one-element list, nothing is executed, no
\* further request is sent, nothing is appended to the transcript, no error.
C3_CallableLessReturnsRawReply ==
    ( /\ HandledReply
      /\ SingleInvocation(LastReply)
      /\ ParsedCall(LastReply[1]).error = NoError
      /\ HasTool(arg_tools, ParsedCall(LastReply[1]).function_name)
      /\ arg_tools.list[FirstNamed(arg_tools.list,
                                   ParsedCall(LastReply[1]).function_name)].function = "None" )
    => /\ outcome = Returned(LastReply)
       /\ Len(outcome.value) = 1
       /\ NothingInvoked
       /\ Len(sent) = Len(received)
       /\ back_end = BACK_END_GEN_AI_LLM =>
              Len(oracle_llm_content_list) = Len(arg_content_list) + 2 * Len(calls)

\* Scenario B: the raw invocation comes back, nothing was called
C3_Witness ==
    /\ Finished
    /\ arg_tools = ToolList(<<ToolAddNoFunction>>)
    /\ received = <<(<<Invocation(CALL_ADD)>>)>>
    /\ outcome = Returned(<<Invocation(CALL_ADD)>>)
    /\ calls = <<>>
    /\ Len(sent) = 1

\* C4: a reply whose call text parses and whose function name is in no tool of the
\* registry (the empty registry and tools = None included) ends run() with the
\* "Unknown function name" error naming the function and the call text, and
\* invokes nothing.
C4_UnknownToolForEveryRegistry ==
    ( /\ HandledReply
      /\ SingleInvocation(LastReply)
      /\ ParsedCall(LastReply[1]).error = NoError
      /\ ~ HasTool(arg_tools, ParsedCall(LastReply[1]).function_name) )
    => /\ outcome = Failed(UnknownError(ParsedCall(LastReply[1]).function_name,
                                        CallTextOf(LastReply[1])))
       /\ NothingInvoked

\* C5: a reply with a segment that holds the marker twice fails with the
\* "embedded tool-call" error, whatever the other segments are, and invokes
\* nothing.
C5_MarkerTwiceIsEmbedded ==
    (HandledReply /\ \E i \in 1..Len(LastReply) : MarkerCount(LastReply[i]) >= 2)
    => (outcome = Failed(EmbeddedError) /\ NothingInvoked)

\* an invocation segment followed by a segment with two markers
C5_Witness ==
    /\ HandledReply
    /\ LastReply = <<Invocation(CALL_ADD), Invocation(CALL_ADD) \o <<" ">> \o Invocation(CALL_SUB)>>
    /\ outcome = Failed(EmbeddedError)

\* C6 as stated: a stateless reply with the marker in more than one segment, or in
\* one segment of several, fails with the "Unexpected number of response
\* messages" error wherever the marker stands in those segments.
C6_WrongNumberWhateverThePosition ==
    ( /\ back_end = BACK_END_GEN_AI_LLM
      /\ HandledReply
      /\ \/ Cardinality(MarkerSegments(LastReply)) > 1
         \/ (Cardinality(MarkerSegments(LastReply)) = 1 /\ Len(LastReply) > 1) )
    => (outcome = Failed(NumberError) /\ NothingInvoked)

\* C6 amended: such a reply makes run() fail and invokes nothing; the error is the
\* "Unexpected number of response messages" error when every segment that holds
\* the marker holds it once and at its start, and the "embedded tool-call" error
\* otherwise.
C6_WrongNumberOrEmbedded ==
    ( /\ back_end = BACK_END_GEN_AI_LLM
      /\ HandledReply
      /\ \/ Cardinality(MarkerSegments(LastReply)) > 1
         \/ (Cardinality(MarkerSegments(LastReply)) = 1 /\ Len(LastReply) > 1) )
    => /\ NothingInvoked
       /\ outcome = IF \A i \in MarkerSegments(LastReply) : MarkerAtStartOnly(LastReply[i])
                    THEN Failed(NumberError)
                    ELSE Failed(EmbeddedError)

\* prose and an invocation in one reply
C6_Witness ==
    /\ HandledReply
    /\ LastReply = <<TEXT_HI, Invocation(CALL_ADD)>>
    /\ outcome = Failed(NumberError)

\* C7 as stated: a reply of one segment that holds the marker once raises neither
\* the "embedded tool-call" nor the "Unexpected number" error.
C7_OneMarkerIsAccepted ==
    (HandledReply /\ Len(LastReply) = 1 /\ MarkerCount(LastReply[1]) = 1)
    => outcome.error \notin {EmbeddedError, NumberError}

\* C7 amended: a reply of one segment that holds the marker once, at its very
\* start, raises neither of the two errors and goes to the parser and the loop:
\* a call text the parser rejects ends run() with the parser's error, and a
\* reply that ends the run without an error is returned as it is.
C7_OneMarkerAtStartIsAccepted ==
    /\ (HandledReply /\ SingleInvocation(LastReply)) =>
           /\ outcome.error \notin {EmbeddedError, NumberError}
           /\ ParsedCall(LastReply[1]).error # NoError =>
                  outcome = Failed(ParsedCall(LastReply[1]).error)
           /\ outcome.kind = "return" => outcome.value = LastReply
    /\ \A k \in 1..(Len(received) - 1) : SingleInvocation(received[k])

\* an accepted invocation reached the resolution of its name
C7_Witness ==
    /\ HandledReply
    /\ arg_tools = ToolList(<<ToolAdd>>)
    /\ LastReply = <<Invocation(CALL_SUB)>>
    /\ outcome = Failed(UnknownError(NAME_SUB, CALL_SUB))

\* C8: a segment with the marker at an index greater than 0 makes run() fail with
\* the "embedded tool-call" error in both adapters; it is neither prose nor a call.
C8_MarkerOnlyAtStart ==
    ( /\ HandledReply
      /\ \E i \in 1..Len(LastReply) :
             \E k \in 1..Len(LastReply[i]) : OccursAt(LastReply[i], TOOL_CALL_PREFIX, k) )
    => (outcome = Failed(EmbeddedError) /\ NothingInvoked)

\* prose before the marker, in the session adapter
C8_Witness ==
    /\ HandledReply
    /\ back_end = BACK_END_GEN_AI_AGENT
    /\ LastReply = <<TEXT_HI \o <<" ">> \o Invocation(CALL_ADD)>>
    /\ outcome = Failed(EmbeddedError)

\* C9: a reply without the marker in any segment is returned as received, after
\* that one backend call: nothing is invoked and no further request is sent.
C9_PlainReplyIsReturned ==
    (HandledReply /\ MarkerSegments(LastReply) = {})
    => /\ outcome.kind = "return"
       /\ outcome.value = LastReply
       /\ outcome.error = NoError
       /\ NothingInvoked
       /\ Len(sent) = Len(received)
       /\ back_end = BACK_END_GEN_AI_AGENT => Len(outcome.value) = 1

\* a prose reply of two segments is returned whole
C9_Witness ==
    /\ Finished
    /\ received = <<(<<TEXT_HI, TEXT_HI>>)>>
    /\ outcome.kind = "return"
    /\ outcome.value = <<TEXT_HI, TEXT_HI>>
    /\ Len(sent) = 1

\* the call texts of the model that are not of the form identifier(literal, ...)
MalformedCallTexts ==
    {CALL_TRAILING_PROSE, CALL_NOT_A_CALL, CALL_ATTRIBUTE, CALL_NOT_LITERAL,
     CALL_ARITHMETIC, CALL_KEYWORDS, CALL_UNCLOSED, <<>>}

\* C10: every call text that is not of the form identifier(literal, literal, ...)
\* ends run() with the "Invalid tool-call: <text>." error, and no tool is resolved
\* or invoked.
C10_InvalidInvocationForEveryMalformedCall ==
    ( /\ HandledReply
      /\ SingleInvocation(LastReply)
      /\ CallTextOf(LastReply[1]) \in MalformedCallTexts )
    => /\ outcome = Failed(InvalidError(TOOL_CALL_DESCRIPTION, CallTextOf(LastReply[1])))
       /\ NothingInvoked

\* the names the parser reads as one identifier
IsIdentifier(name) ==
    /\ name # <<>>
    /\ name[1] \in NameStart
    /\ \A i \in 1..Len(name) : name[i] \in NameChar
    /\ name \notin {TrueText, FalseText, NoneText}

C12_FirstExactMatchDecides ==
    /\ \A k \in 1..Len(calls) :
           /\ calls[k].tool = FirstNamed(arg_tools.list, calls[k].name)
           /\ arg_tools.list[calls[k].tool].function # "None"
           /\ calls[k].name = ParsedCall(calls[k].tool_call).function_name
    /\ ( /\ HandledReply
         /\ SingleInvocation(LastReply)
         /\ ParsedCall(LastReply[1]).error = NoError
         /\ HasTool(arg_tools, ParsedCall(LastReply[1]).function_name) )
       => IF arg_tools.list[FirstNamed(arg_tools.list,
                                       ParsedCall(LastReply[1]).function_name)].function = "None"
          THEN NothingInvoked /\ outcome.kind = "return" /\ outcome.value = LastReply
          ELSE /\ Len(calls) = Len(received)
               /\ calls[Len(calls)].tool_call = LastReply[1]
               /\ calls[Len(calls)].tool
                      = FirstNamed(arg_tools.list, ParsedCall(LastReply[1]).function_name)

\* two tools are named add: the first has no callable and the reply is returned
C12_Witness ==
    /\ Finished
    /\ arg_tools = ToolList(<<ToolAddNoFunction, ToolAdd>>)
    /\ received = <<(<<Invocation(CALL_ADD)>>)>>
    /\ outcome.kind = "return"
    /\ outcome.value = <<Invocation(CALL_ADD)>>
    /\ calls = <<>>

(***************************************************************************)
(* Properties of the session adapter (run_for_agent).                      *)
(***************************************************************************)
NonEmpty(registry) == ~ registry.is_none /\ registry.list # <<>>
\* the session message holds the tool preamble of the registry
HasPreamble(message, registry) ==
    contains(message, get_tool_descriptions(registry).text)
\* the text of the last transcript item of text kind; there is one
RECURSIVE LastText(_)
LastText(items) ==
    IF items[Len(items)].content_type = "string" THEN items[Len(items)].content_data
    ELSE LastText(SubSeq(items, 1, Len(items) - 1))
HasText(items) == \E i \in 1..Len(items) : items[i].content_type = "string"

\* C13: over the run() calls of one session adapter with a non-empty registry,
\* calls that ended in an error included, the preamble is in the first message of
\* the first call and in no other message: not in the first message of a later
\* call, and not in a message sent after a tool result.
C13_PreambleOnlyInFirstMessageOfFirstCall ==
    [][ back_end = BACK_END_GEN_AI_AGENT =>
          /\ ( /\ started' = started + 1
               /\ NonEmpty(arg_tools')
               /\ started = 0 \/ NonEmpty(arg_tools) )
             => (HasPreamble(sent'[1].message, arg_tools') <=> started = 0)
          /\ ( /\ started' = started
               /\ Len(sent') = Len(sent) + 1
               /\ NonEmpty(arg_tools) )
             => ~ HasPreamble(sent'[Len(sent')].message, arg_tools) ]_vars

\* C14: the first message of a session run() holds the text of one transcript
\* item, the last one of text kind; on the first run() of the adapter with a
\* non-empty registry it is the preamble, a newline and that text, on every later
\* run() it is that text alone.
C14_FirstMessageIsNewestText ==
    [][ ( /\ back_end = BACK_END_GEN_AI_AGENT
          /\ started' = started + 1
          /\ HasText(arg_content_list') )
        => /\ Len(sent') = 1
           /\ sent'[1].message =
                  IF started = 0 /\ NonEmpty(arg_tools')
                  THEN get_tool_descriptions(arg_tools').text \o <<"\n">>
                       \o LastText(arg_content_list')
                  ELSE LastText(arg_content_list') ]_vars

(***************************************************************************)
(* Properties of the requests of the stateless adapter (run_for_llm).      *)
(***************************************************************************)
\* the transcript request k is built from: the caller's items and the pairs of
\* the k - 1 invocations executed before it
WorkingTranscript(k) ==
    arg_content_list \o ExpectedPairs(SubSeq(calls, 1, k - 1), arg_tools)
TextItems(items) == SelectSeq(items, LAMBDA item : item.content_type = "string")
RoleMessages(items) ==
    [i \in 1..Len(items) |-> [role |-> upper(items[i].role), text |-> items[i].content_data]]
PreambleMessages(registry) ==
    IF NonEmpty(registry)
    THEN <<[role |-> "SYSTEM", text |-> get_tool_descriptions(registry).text]>>
    ELSE <<>>
PreambleText(registry) ==
    IF NonEmpty(registry) THEN get_tool_descriptions(registry).text ELSE <<>>

\* C15 as stated: every request of the stateless adapter carries one message per
\* transcript item, in order, with the role and the text of the item, after the
\* preamble as a system message exactly when the registry is non-empty.
C15_OneMessagePerItem ==
    back_end = BACK_END_GEN_AI_LLM =>
        \A k \in 1..Len(sent) :
            sent[k].messages
                = PreambleMessages(arg_tools) \o RoleMessages(WorkingTranscript(k))

\* C15 amended: every request is rebuilt from the working transcript alone.  For
\* the GENERIC model type it carries one message per item of text kind, in order,
\* with the role (in upper case) and the text of the item, after the preamble as
\* a system message exactly when the registry is non-empty; for the COHERE model
\* type it carries one text, the preamble (when the registry is non-empty) and the
\* texts of the items of text kind joined by newlines.  Items of another kind are
\* left out.
C15_RequestFromTextItems ==
    back_end = BACK_END_GEN_AI_LLM =>
        \A k \in 1..Len(sent) :
            IF model_type = "GENERIC"
            THEN /\ sent[k].messages
                        = PreambleMessages(arg_tools)
                          \o RoleMessages(TextItems(WorkingTranscript(k)))
                 /\ sent[k].message = <<>>
            ELSE /\ sent[k].message
                        = WithLines(PreambleText(arg_tools), TextItems(WorkingTranscript(k)))
                 /\ sent[k].messages = <<>>

\* a second run() re-enters after add(2,3): the preamble, the two text items of
\* the caller (the image item left out), the echo and the result statement
C15_Witness ==
    /\ back_end = BACK_END_GEN_AI_LLM /\ model_type = "GENERIC"
    /\ started = 2
    /\ Len(arg_content_list) = 3
    /\ arg_tools = ToolList(<<ToolAdd>>)
    /\ Len(sent) = 2
    /\ Len(sent[2].messages) = 5
    /\ sent[2].messages[2] = [role |-> "SYSTEM", text |-> TEXT_BRIEF]
    /\ sent[2].messages[3] = [role |-> "USER", text |-> TEXT_HI]
    /\ sent[2].messages[4] = [role |-> "ASSISTANT", text |-> Invocation(CALL_ADD)]

\* C16: in the session adapter the message sent after an executed invocation is
\* exactly "The function result of <raw reply> is: <str(result)>", without the
\* preamble and without a transcript item, and a message is sent within a run only
\* after an executed invocation; the transcript of the caller and the working
\* transcript stay as they are throughout the run.
C16_ResultStatementIsNextMessage ==
    [][ (back_end = BACK_END_GEN_AI_AGENT /\ started' = started)
        => /\ arg_content_list' = arg_content_list
           /\ oracle_llm_content_list' = oracle_llm_content_list
           /\ (Len(calls') > Len(calls) /\ pc' = "chat")
              => /\ Len(sent') = Len(sent) + 1
                 /\ sent'[Len(sent')].message
                        = ExpectedPair(calls'[Len(calls')], arg_tools)[2].content_data
           /\ Len(sent') > Len(sent)
              => /\ Len(calls') = Len(calls) + 1
                 /\ calls'[Len(calls')].tool_call = received'[Len(received')][1] ]_vars

\* two invocations were executed in one run: the second and the third message are
\* result statements
C16_Witness ==
    /\ back_end = BACK_END_GEN_AI_AGENT
    /\ pc = "chat"
    /\ arg_tools = ToolList(<<ToolAdd>>)
    /\ Len(calls) = 2
    /\ Len(sent) = 3
    /\ received[1] = <<Invocation(CALL_ADD)>>
    /\ sent[2].message =
           <<"T","h","e"," ","f","u","n","c","t","i","o","n"," ","r","e","s","u","l","t"," ","o",
            "f"," ","T","O","O","L","-","C","A","L","L",":"," ","a","d","d","(","2",",","3",")",
            " ","i","s",":"," ","5">>

\* C17: the session of a session adapter is the one created at construction: the
\* handle is never replaced, and every request of every run(), after a failed
\* run() too, is a session request that carries it.
C17_OneSessionHandle ==
    back_end = BACK_END_GEN_AI_AGENT =>
        /\ session_id = "session-1"
        /\ \A k \in 1..Len(sent) :
               sent[k].api = "session" /\ sent[k].session_id = "session-1"

\* the second run() after a failed first one, re-entered after a tool result
C17_Witness ==
    /\ back_end = BACK_END_GEN_AI_AGENT
    /\ started = 2
    /\ number_of_runs = 0
    /\ pc = "chat"
    /\ Len(sent) = 2
    /\ sent[2].session_id = session_id

(***************************************************************************)
(* Termination and errors of run().                                        *)
(***************************************************************************)
\* C18: when the backend calls return and the backend comes to give a reply that
\* executes nothing, run() ends; a run() that returns has sent one request more
\* than it has executed invocations.
C18_RunTerminates ==
    /\ (pc = "chat") ~> (pc = "idle" /\ outcome.kind # "none")
    /\ []((Finished /\ outcome.kind = "return") => Len(sent) = Len(calls) + 1)

\* a run() that executed two invocations and returned after its third request
C18_Witness ==
    /\ Finished
    /\ outcome.kind = "return"
    /\ Len(calls) = 2
    /\ Len(sent) = 3
    /\ Len(received) = 3

\* the reply is a valid invocation of an executable tool whose callable returns
ExecutableInvocation(reply, registry) ==
    /\ SingleInvocation(reply)
    /\ ParsedCall(reply[1]).error = NoError
    /\ HasTool(registry, ParsedCall(reply[1]).function_name)
    /\ registry.list[FirstNamed(registry.list,
                                ParsedCall(reply[1]).function_name)].function # "None"
    /\ CallFunction(registry.list[FirstNamed(registry.list,
                                             ParsedCall(reply[1]).function_name)].function,
                    ParsedCall(reply[1]).function_parameters).error = NoError

\* C19: the loop has no cap of its own.  However many invocations a run() has
\* executed, a reply that is a valid invocation of an executable tool is executed
\* and answered with a further request: the run does not return on it, and the
\* stateless transcript grows by two items.
C19_NoLocalCap ==
    [][ ( /\ Len(received') = Len(received) + 1
          /\ ExecutableInvocation(received'[Len(received')], arg_tools) )
        => /\ pc' = "chat"
           /\ outcome' = outcome
           /\ number_of_runs' = number_of_runs
           /\ Len(calls') = Len(calls) + 1
           /\ Len(sent') = Len(sent) + 1
           /\ back_end = BACK_END_GEN_AI_LLM
              => Len(oracle_llm_content_list') = Len(oracle_llm_content_list) + 2 ]_vars

\* a stateless run() that has executed as many invocations as the model admits
\* and has sent the next request
C19_Witness ==
    /\ back_end = BACK_END_GEN_AI_LLM
    /\ pc = "chat"
    /\ Len(calls) = MaxCalls
    /\ Len(sent) = MaxCalls + 1
    /\ Len(oracle_llm_content_list) = Len(arg_content_list) + 2 * MaxCalls

\* the error the handling of a reply ends with, NoError when it ends with none
RaisedBy(reply, registry) ==
    IF \E i \in 1..Len(reply) :
           \E k \in 1..Len(reply[i]) : OccursAt(reply[i], TOOL_CALL_PREFIX, k)
    THEN EmbeddedError
    ELSE IF MarkerSegments(reply) = {} THEN NoError
    ELSE IF Len(reply) > 1 THEN NumberError
    ELSE IF ParsedCall(reply[1]).error # NoError THEN ParsedCall(reply[1]).error
    ELSE IF registry.is_none THEN Raised("TypeError", <<>>)
    ELSE IF ~ HasTool(registry, ParsedCall(reply[1]).function_name)
    THEN UnknownError(ParsedCall(reply[1]).function_name, CallTextOf(reply[1]))
    ELSE IF registry.list[FirstNamed(registry.list,
                                     ParsedCall(reply[1]).function_name)].function = "None"
    THEN NoError
    ELSE CallFunction(registry.list[FirstNamed(registry.list,
                                               ParsedCall(reply[1]).function_name)].function,
                      ParsedCall(reply[1]).function_parameters).error

\* C20: a failed backend call and every protocol, parsing, resolution and tool
\* error ends run() with that error: nothing is returned, no request follows in
\* the run, and the loop goes on only after replies that raised nothing.
C20_ErrorsEndTheRun ==
    /\ outcome.kind = "raise" =>
           /\ pc = "idle"
           /\ outcome.value = <<>>
           /\ outcome.error # NoError
           /\ Len(sent) = Len(received)
                          + (IF outcome.error.type = "ServiceError" THEN 1 ELSE 0)
    /\ HandledReply =>
           /\ outcome.error = RaisedBy(LastReply, arg_tools)
           /\ outcome.kind = "raise" <=> RaisedBy(LastReply, arg_tools) # NoError
    /\ \A k \in 1..Len(received) :
           (k < Len(received) \/ pc = "chat") =>
               ExecutableInvocation(received[k], arg_tools)

\* the second invocation of a run raised in the callable: the error left run()
\* and no third request was sent
C20_Witness ==
    /\ Finished
    /\ outcome.kind = "raise"
    /\ outcome.error.type = "TypeError"
    /\ Len(calls) = 2
    /\ Len(received) = 2
    /\ Len(sent) = 2

LineFeeds(text) == {i \in 1..Len(text) : text[i] = "\n"}
LineFeed(text, feeds, k) ==
    IF k = 0 THEN 0
    ELSE IF k > Cardinality(feeds) THEN Len(text) + 1
    ELSE CHOOSE i \in feeds : Cardinality({j \in feeds : j < i}) = k - 1
\* the lines of a text: the pieces between its line feeds
LinesBetween(text, feeds) ==
    [k \in 1..(Cardinality(feeds) + 1) |->
        SubSeq(text, LineFeed(text, feeds, k - 1) + 1, LineFeed(text, feeds, k) - 1)]
SplitLines(text) == LinesBetween(text, LineFeeds(text))

\* names separated by commas, in the order of the sequence
RECURSIVE JoinNames(_)
JoinNames(parameters) ==
    IF parameters = <<>> THEN <<>>
    ELSE IF Len(parameters) = 1 THEN parameters[1].name
    ELSE parameters[1].name \o <<",">> \o JoinNames(Tail(parameters))

PROTOTYPE_IS ==
    <<"."," ","T","h","e"," ","f","u","n","c","t","i","o","n"," ","p","r","o","t","o","t",
      "y","p","e"," ","i","s",":"," ">>
DESCRIPTION_IS ==
    <<")"," ","a","n","d"," ","t","h","e"," ","f","u","n","c","t","i","o","n"," ","d","e",
      "s","c","r","i","p","t","i","o","n"," ","i","s",":"," ">>
MARKER_INSTRUCTION ==
    <<"A","l","w","a","y","s"," ","i","n","d","i","c","a","t","e"," ","w","h","e","n"," ",
      "y","o","u"," ","w","a","n","t"," ","t","o"," ","c","a","l","l"," ","a"," ","f","u",
      "n","c","t","i","o","n"," ","b","y"," ","w","r","i","t","i","n","g",":"," ","\"",
      "T","O","O","L","-","C","A","L","L",":"," ","f","u","n","c","t","i","o","n","_","n",
      "a","m","e","(","p","a","r","a","m","e","t","e","r","s",")","\"">>
NO_MIXING_INSTRUCTION ==
    <<"D","o"," ","n","o","t"," ","c","o","m","b","i","n","e"," ","f","u","n","c","t","i",
      "o","n"," ","c","a","l","l","s"," ","a","n","d"," ","t","e","x","t"," ","r","e","s",
      "p","o","n","s","e","s"," ","i","n"," ","t","h","e"," ","s","a","m","e"," ","o","u",
      "t","p","u","t",":"," ","e","i","t","h","e","r"," ","o","n","l","y"," ","f","u","n",
      "c","t","i","o","n"," ","c","a","l","l","s"," ","o","r"," ","o","n","l","y"," ","t",
      "e","x","t"," ","r","e","s","p","o","n","s","e","s",".">>
QUOTING_INSTRUCTION ==
    <<"F","o","r"," ","a","n","y"," ","s","t","r","i","n","g"," ","p","a","r","a","m","e",
      "t","e","r","s",","," ","b","e"," ","s","u","r","e"," ","t","o"," ","e","n","c","l",
      "o","s","e"," ","e","a","c","h"," ","o","f"," ","t","h","e","m"," ","i","n"," ","d",
      "o","u","b","l","e"," ","q","u","o","t","e","s",".">>

\* the line the preamble has for the i-th tool
PrototypeLine(i, tool) ==
    IntToText(i) \o PROTOTYPE_IS \o tool.name \o <<"(">> \o JoinNames(tool.parameters)
        \o DESCRIPTION_IS \o tool.description

\* the lines of a preamble for the tools of list: the i-th of the lines of tools
\* is the line of the i-th tool, no other line is a line of a tool, and the
\* three instructions are the last three lines
PreambleLinesFor(lines, list) ==
    /\ Len(lines) >= Len(list) + 3
    /\ \E first \in 1..Len(lines) :
           /\ first + Len(list) - 1 <= Len(lines) - 3
           /\ \A i \in 1..Len(list) : lines[first + i - 1] = PrototypeLine(i, list[i])
           /\ \A l \in 1..Len(lines) :
                  contains(lines[l], PROTOTYPE_IS) => l \in first..(first + Len(list) - 1)
    /\ lines[Len(lines) - 2] = MARKER_INSTRUCTION
    /\ lines[Len(lines) - 1] = NO_MIXING_INSTRUCTION
    /\ lines[Len(lines)] = QUOTING_INSTRUCTION

\* C22: for a registry that is not empty the preamble lists every tool once,
\* numbered 1..n in the order of registration, each as "i. The function
\* prototype is: name(p1,p2,...) and the function description is: description"
\* with the names of the parameters in declared order, and ends with the three
\* instruction lines: the marker, no mixing of calls and text, double quotes
\* for string parameters.
C22_PreambleFormat ==
    \A k \in 1..Len(described) :
        NonEmpty(arg_tools)
            => /\ ~described[k].is_none
               /\ PreambleLinesFor(SplitLines(described[k].text), arg_tools.list)

\* the preamble of a registry of the tool with two parameters and the tool with
\* none has been written
C22_Witness ==
    /\ Len(described) >= 1
    /\ arg_tools = ToolList(<<ToolAdd, ToolNow>>)
    /\ ~described[1].is_none
    /\ contains(described[1].text, <<"(","a",",","b",")">>)
    /\ contains(described[1].text, <<"2",".">> \o <<" ","T","h","e">>)

(***************************************************************************)
(* Properties of the plugins on the event loop (EventLoopSpec).            *)
(***************************************************************************)
\* the stream tasks that are inside run(), waiting for the backend
InRun == {stream \in Streams : task_pc[stream].at = "chat"}

\* C23: while the backend request of a stream is in flight the thread of the
\* event loop is free, so that other coroutines (the streams of other
\* conversations, the speech tasks) can be scheduled.
C23_LoopFreeWhileRequestInFlight ==
    InRun # {} => thread = {}

\* C24: on one event loop no two run() calls on the OracleLLM instance are in
\* progress at the same time: a run in progress still sees the counter it read
\* when it was entered, and the counter is the number of run() calls that
\* returned.
C24_RunsNeverOverlap ==
    /\ Cardinality(InRun) <= 1
    /\ \A stream \in InRun : task_pc[stream].runs = number_of_runs
    /\ number_of_runs = Cardinality({stream \in Streams : task_pc[stream].at = "done"})

\* a third turn is inside run() after one turn returned and one raised
C24_Witness ==
    /\ Cardinality(InRun) = 1
    /\ \E stream \in Streams : task_pc[stream].at = "done"
    /\ \E stream \in Streams : task_pc[stream].at = "failed"
    /\ started = 3

(***************************************************************************)
(* Properties of the turns of the LLM plugin (StreamSpec).                 *)
(***************************************************************************)
\* run() of the turn returned its reply to _run
TurnReturned == pc = "idle" /\ outcome.kind = "return"
\* the reply _run takes for an invocation (line 156)
IsInvocationReply(reply) == Len(reply) = 1 /\ startswith(reply[1], TOOL_CALL_PREFIX)
\* the texts of the chunks of the turn, in order
EventContents == [i \in 1..Len(events) |-> events[i].content]

\* C25: when the stateless backend gives a prose reply in several segments,
\* every segment run() returns for the turn is in the output of the turn, in
\* order.
C25_EverySegmentReachesTheFramework ==
    (TurnReturned /\ back_end = BACK_END_GEN_AI_LLM /\ ~ IsInvocationReply(outcome.value))
        => EventContents = outcome.value

\* C26: a turn whose reply is not empty sends exactly one chunk: a tool call
\* with the name of the call, its arguments and a fresh call id when the reply
\* is one segment that starts with the marker, a text of the assistant
\* otherwise; no text chunk holds the marker.
C26_OneEventPerReply ==
    (TurnReturned /\ outcome.value # <<>>)
        => /\ Len(events) = 1
           /\ IF IsInvocationReply(outcome.value)
              THEN /\ events[1].type = "tool_call"
                   /\ events[1].name = ParsedCall(outcome.value[1]).function_name
                   /\ events[1].call_id \in DOMAIN call_id_to_tool_call_dictionary
              ELSE /\ events[1].type = "text"
                   /\ events[1].role = ROLE_ASSISTANT
                   /\ ~ contains(events[1].content, TOOL_CALL_PREFIX)

\* the step sends a tool-call chunk
ToolCallSent ==
    /\ events' # events
    /\ events' # <<>>
    /\ events'[1].type = "tool_call"

\* C27: the map from call ids to call texts only grows: an entry is added
\* exactly in the step that sends a tool-call chunk, under the call id of the
\* chunk and with the raw call text of the reply, and the entries the map has
\* are neither removed nor changed.
C27_CallIdMapOnlyGrows ==
    [][/\ \A id \in DOMAIN call_id_to_tool_call_dictionary :
              /\ id \in DOMAIN call_id_to_tool_call_dictionary'
              /\ call_id_to_tool_call_dictionary'[id] = call_id_to_tool_call_dictionary[id]
       /\ IF ToolCallSent
          THEN /\ events'[1].call_id \notin DOMAIN call_id_to_tool_call_dictionary
               /\ DOMAIN call_id_to_tool_call_dictionary'
                      = DOMAIN call_id_to_tool_call_dictionary \cup {events'[1].call_id}
               /\ call_id_to_tool_call_dictionary'[events'[1].call_id] = outcome'.value[1]
          ELSE call_id_to_tool_call_dictionary' = call_id_to_tool_call_dictionary]_vars

\* the second tool call of a plugin instance has been sent and recorded
C27_Witness ==
    /\ TurnReturned
    /\ Len(events) = 1
    /\ events[1].type = "tool_call"
    /\ events[1].call_id = 2
    /\ DOMAIN call_id_to_tool_call_dictionary = {1, 2}
    /\ call_id_to_tool_call_dictionary[2] = outcome.value[1]

\* the text of an output: its member "text" when it is a JSON object that has
\* one, the output itself otherwise
OutputTextOf(output, message) ==
    IF message.error = NoError THEN message.text ELSE output

\* the transcript of a chat context: the elements of the messages in order,
\* and for every output of a known call the call and its result statement
RECURSIVE ExpectedTranscript(_, _)
ExpectedTranscript(items, dictionary) ==
    IF items = <<>> THEN <<>>
    ELSE (IF Head(items).type = "message"
          THEN [i \in 1..Len(Head(items).content) |->
                   [content_data |-> Head(items).content[i],
                    content_type |-> CONTENT_TYPE_STRING, role |-> Head(items).role]]
          ELSE IF Head(items).type = "function_call_output"
                  /\ Head(items).call_id \in DOMAIN dictionary
          THEN <<[content_data |-> dictionary[Head(items).call_id],
                  content_type |-> CONTENT_TYPE_STRING, role |-> ROLE_ASSISTANT],
                 [content_data |-> THE_FUNCTION_RESULT_OF
                                       \o dictionary[Head(items).call_id] \o IS_COLON
                                       \o OutputTextOf(Head(items).output,
                                              OutputMessage(json_loads(Head(items).output))),
                  content_type |-> CONTENT_TYPE_STRING, role |-> ROLE_SYSTEM]>>
          ELSE <<>>)
         \o ExpectedTranscript(Tail(items), dictionary)

\* C28: the turn calls run() with the transcript of its chat context: an output
\* gives the pair of the recorded call and its result statement, at its
\* position, if and only if its call id is in the map; an output with an
\* unknown call id gives nothing, no error is raised, and the messages keep
\* their order.
C28_OutputsOfKnownCallsBecomePairs ==
    [][pc = "idle"
          => /\ stream_error' = NoError
             /\ pc' = "chat"
             /\ arg_content_list'
                    = ExpectedTranscript(chat_ctx', call_id_to_tool_call_dictionary)]_vars

\* C29: when run() returns the raw invocation of a tool without a callable, the
\* lookup of the plugin finds the tool run() found, the first of the name, and
\* the turn sends the tool call for it; no exception is raised, however many
\* arguments the call has and whether or not the name is registered twice.
C29_PluginResolvesWhatTheCoreResolved ==
    (TurnReturned /\ IsInvocationReply(outcome.value))
        => /\ stream_error = NoError
           /\ Len(events) = 1
           /\ events[1].type = "tool_call"
           /\ events[1].name = ParsedCall(outcome.value[1]).function_name
           /\ events[1].arguments
                  = FunctionParametersText(
                        arg_tools.list[FirstNamed(arg_tools.list,
                                                  ParsedCall(outcome.value[1]).function_name)]
                            .parameters,
                        ParsedCall(outcome.value[1]).function_parameters)

\* the members of a JSON object are the arguments under the names of the
\* parameters, a string where the type-tag is "string"
ArgumentsAre(loaded, parameters, function_parameters) ==
    /\ loaded.error = NoError
    /\ loaded.is_object
    /\ Len(loaded.members) = Len(function_parameters)
    /\ \A i \in 1..Len(function_parameters) :
           /\ loaded.members[i].key = parameters[i].name
           /\ loaded.members[i].value
                  = (IF parameters[i].type = "string"
                     THEN StrValue(str(function_parameters[i]))
                     ELSE function_parameters[i])

\* C30: the arguments text of a tool-call chunk is a JSON object whose i-th
\* key is the name of the i-th parameter of the tool and whose i-th value is
\* the i-th parsed argument, in double quotes exactly when the type-tag of the
\* parameter is "string"; no argument is checked against the type-tag.
C30_ArgumentsTextIsJson ==
    (TurnReturned /\ events # <<>> /\ events[1].type = "tool_call")
        => ArgumentsAre(json_loads(events[1].arguments),
                        arg_tools.list[LastAdvertised(
                            arg_tools.list, events[1].name,
                            Len(ParsedCall(outcome.value[1]).function_parameters))].parameters,
                        ParsedCall(outcome.value[1]).function_parameters)

(***************************************************************************)
(* Properties of run() as a whole (Spec).                                  *)
(***************************************************************************)
\* the segment names a tool of the registry whose first entry has no callable
NamesCallableLess(segment, registry) ==
    /\ ParsedCall(segment).error = NoError
    /\ HasTool(registry, ParsedCall(segment).function_name)
    /\ registry.list[FirstNamed(registry.list,
                                ParsedCall(segment).function_name)].function = "None"

\* C31: a list run() returns has one of two shapes: no segment holds the
\* marker, or the list is one segment that begins with the marker, holds it
\* once, parses as a call and names a registered tool without a callable.  A
\* reply that names an executable tool is not returned.
C31_ReturnedShapes ==
    (Finished /\ outcome.kind = "return")
        => \/ \A i \in 1..Len(outcome.value) : MarkerCount(outcome.value[i]) = 0
           \/ /\ SingleInvocation(outcome.value)
              /\ NamesCallableLess(outcome.value[1], arg_tools)

\* both shapes: a run returned the raw invocation of a tool without a callable
\* that is registered before its executable twin
C31_Witness ==
    /\ Finished
    /\ outcome = Returned(<<Invocation(CALL_ADD)>>)
    /\ arg_tools = ToolList(<<ToolAddNoFunction, ToolAdd>>)
    /\ calls = <<>>

\* C32: run() changes neither the list nor the registry of the caller: while a
\* run goes on and when it returns or raises, both hold what the caller passed,
\* although the stateless adapter has appended the echo and the result of every
\* executed call to its working list; and a stateless run() that is called
\* again with the same list and registry sends the first request of the run
\* before.
C32_CallerArgumentsUntouched ==
    [][/\ pc = "chat"
          => /\ arg_content_list' = arg_content_list
             /\ arg_tools' = arg_tools
       /\ ( /\ pc = "idle"
            /\ pc' = "chat"
            /\ started >= 1
            /\ back_end = BACK_END_GEN_AI_LLM
            /\ arg_content_list' = arg_content_list
            /\ arg_tools' = arg_tools )
          => sent'[1] = sent[1]]_vars

\* a stateless run that executed a call has returned: its working list has the
\* echo and the result, the list of the caller has the one item it had
C32_Witness ==
    /\ Finished
    /\ back_end = BACK_END_GEN_AI_LLM
    /\ outcome = Returned(<<TEXT_FIVE>>)
    /\ Len(calls) = 1
    /\ arg_content_list = <<OracleLLMContent(TEXT_QUESTION, CONTENT_TYPE_STRING, ROLE_USER)>>
    /\ Len(oracle_llm_content_list) = 3

(***************************************************************************)
(* Properties of the audio cache (CacheSpec).                              *)
(***************************************************************************)
\* the calls of the log that carry a request
CacheCalls == {i \in 1..Len(cache_log) : cache_log[i].op \in {"get", "set"}}

\* C33: two requests address the same entry only if they agree on voice, rate,
\* channels, bits and text: requests that differ have different keys.
C33_DistinctRequestsDistinctKeys ==
    \A i \in CacheCalls : \A j \in CacheCalls :
        cache_log[i].key = cache_log[j].key => cache_log[i].request = cache_log[j].request

\* the entries before the j-th that decide what a get for the request returns:
\* the sets for the request and the removals of its audio file
Deciders(j, request) ==
    {i \in 1..(j - 1) :
        \/ cache_log[i].op = "set" /\ cache_log[i].request = request
        \/ cache_log[i].op = "remove" /\ cache_log[i].key = KeyOf(request)}
LastOf(S) == CHOOSE i \in S : \A k \in S : k <= i
ExpectedAudio(deciders) ==
    IF deciders = {} \/ cache_log[LastOf(deciders)].op = "remove" THEN NoAudio
    ELSE Audio(cache_log[LastOf(deciders)].audio_bytes)

\* C34: a get for a request returns the bytes of the last set for that request,
\* whatever gets and sets for other requests came in between and also from an
\* AudioCache opened later on the directory, and None when the request was never
\* set (or its audio file was removed since); every audio file of the directory
\* is the file of one key, so a second set for a request keeps one file for it.
C34_GetReturnsLastSet ==
    /\ \A j \in 1..Len(cache_log) :
           cache_log[j].op = "get"
               => cache_log[j].result
                      = ExpectedAudio(Deciders(j, cache_log[j].request))
    /\ \A name \in DOMAIN audio_files :
           Cardinality({key \in DOMAIN index_dictionary :
                           index_dictionary[key].audio_bytes_file_name = name}) = 1

\* the step is a completed get for the key
GetFor(key) ==
    /\ Len(cache_log') = Len(cache_log) + 1
    /\ cache_log'[Len(cache_log')].op = "get"
    /\ cache_log'[Len(cache_log')].key = key

\* C35: after every completed get and set (and for every AudioCache opened on
\* the directory) the index file holds the index kept in memory, an absent index
\* file standing for the empty index as it does when the cache is opened; the
\* get for an indexed key whose audio file is missing returns None and removes
\* the key from the index in memory and from the index file.
C35_IndexFileIsTheIndex ==
    [][/\ LoadedIndex(index_file') = index_dictionary'
       /\ \A key \in DOMAIN index_dictionary :
              (GetFor(key) /\ index_dictionary[key].audio_bytes_file_name
                                  \notin DOMAIN audio_files)
                  => /\ cache_log'[Len(cache_log')].result = NoAudio
                     /\ key \notin DOMAIN index_dictionary'
                     /\ index_file'.exists
                     /\ key \notin DOMAIN index_file'.dictionary]_vars

\* a key was set, its audio file was removed, and the get for it has returned
\* None and has written the index without the key
C35_Witness ==
    /\ Len(cache_log) = 3
    /\ cache_log[1].op = "set"
    /\ cache_log[2].op = "remove"
    /\ cache_log[3].op = "get"
    /\ cache_log[3].key = cache_log[1].key
    /\ cache_log[3].result = NoAudio
    /\ index_dictionary = <<>>
    /\ index_file = [exists |-> TRUE, dictionary |-> <<>>]

(***************************************************************************)
(* Properties of the synthesize runs of the TTS plugin (TtsSpec).          *)
(***************************************************************************)
\* C36: a plugin made without a cache asks the speech service in every run and
\* pushes the audio the service gives as one frame; the absent cache is neither
\* read nor written and no run fails because of it.
C36_RunsWithoutCache ==
    (audio_cache.is_none /\ synthesis.at = "done")
        => /\ synthesis.error \in {NoError, Raised("ServiceError", <<>>)}
           /\ synthesis.requests = 1
           /\ synthesis.error = NoError
                  => synthesis.frames = Emitted(synthesis.service[1])
           /\ cache_log = <<>>

\* the key of the text of the run is indexed and its audio file is there
InCache(dictionary, files, key) ==
    /\ key \in DOMAIN dictionary
    /\ dictionary[key].audio_bytes_file_name \in DOMAIN files
\* the step is a set of the cache
SetLogged ==
    /\ Len(cache_log') = Len(cache_log) + 1
    /\ cache_log'[Len(cache_log')].op = "set"

\* C37: with a cache, the service is asked for a text only when the cache has no
\* audio for it; what the service gives is stored exactly when it is not None
\* and the text is not longer than the limit, and then the cache holds these
\* bytes for the text; a run for a text the cache has audio for pushes these
\* bytes and asks nothing; no text longer than the limit is ever stored.
C37_ServiceOnlyOnMiss ==
    [][~ audio_cache.is_none
          => /\ synthesis'.requests > 0
                    => ~ InCache(index_dictionary, audio_files,
                                 KeyOf(TtsRequest(synthesis'.input_text)))
             /\ (synthesis.at = "service" /\ synthesis'.service # <<>>)
                    => /\ SetLogged
                           <=> /\ ~ synthesis'.service[1].is_none
                               /\ Len(synthesis.input_text) <= audio_cache.maximum_text_length
                       /\ IF SetLogged
                          THEN /\ InCache(index_dictionary', audio_files',
                                          KeyOf(TtsRequest(synthesis.input_text)))
                               /\ audio_files'[index_dictionary'[
                                      KeyOf(TtsRequest(synthesis.input_text))]
                                          .audio_bytes_file_name]
                                      = synthesis'.service[1].data
                          ELSE UNCHANGED cacheVars
             /\ ( /\ synthesis'.runs = synthesis.runs + 1
                  /\ InCache(index_dictionary, audio_files,
                             KeyOf(TtsRequest(synthesis'.input_text))) )
                    => /\ synthesis'.at = "done"
                       /\ synthesis'.requests = 0
                       /\ synthesis'.frames
                              = <<AudioFrame(audio_files[index_dictionary[
                                      KeyOf(TtsRequest(synthesis'.input_text))]
                                          .audio_bytes_file_name])>>
             /\ \A i \in 1..Len(cache_log') :
                    cache_log'[i].op = "set"
                        => Len(cache_log'[i].request.text)
                               <= audio_cache.maximum_text_length]_vars

\* the second run for a text as long as the limit has pushed the bytes the first
\* run stored, and has not asked the service
C37_Witness ==
    /\ ~ audio_cache.is_none
    /\ synthesis.at = "done"
    /\ synthesis.runs = 2
    /\ synthesis.input_text = TEXT_HI
    /\ Len(TEXT_HI) = audio_cache.maximum_text_length
    /\ synthesis.requests = 0
    /\ synthesis.cached = Audio(AUDIO_ONE)
    /\ synthesis.frames = <<AudioFrame(AUDIO_ONE)>>
    /\ Len(cache_log) = 3
    /\ cache_log[2].op = "set"

(***************************************************************************)
(* Properties of the speech-recognition wrapper (SttSpec, SttResultSpec).  *)
(***************************************************************************)
\* the clients that are not closed
OpenClients(all) == {i \in 1..Len(all) : ~ all[i].close_flag}

\* C38: every on_error and on_network_event callback closes the client held at
\* that moment, resets the connected flag, makes a new client, which is then the
\* one held, and creates a connect task; the callbacks are not counted or
\* limited; at every moment at most one client is not closed, the one held.
C38_ReconnectsAfterEveryFailure ==
    [][/\ failures' # failures
           => /\ real_time_speech_client # <<>>
                     => clients'[real_time_speech_client[1]].close_flag
              /\ connected' = FALSE
              /\ Len(clients') = Len(clients) + 1
              /\ clients'[Len(clients')] = NewClient
              /\ real_time_speech_client' = <<Len(clients')>>
              /\ connect_tasks' = connect_tasks + 1
       /\ Cardinality(OpenClients(clients')) <= 1
       /\ \A i \in OpenClients(clients') : real_time_speech_client' = <<i>>]_vars

\* after two failures the third client is held, connecting and connected, and the
\* two before it are closed
C38_Witness ==
    /\ failures = 2
    /\ Len(clients) = 3
    /\ clients[1].close_flag
    /\ clients[2].close_flag
    /\ real_time_speech_client = <<3>>
    /\ clients[3].connect_message
    /\ connected

\* the results the callbacks so far had to queue: one per message whose first
\* transcription is final, or whatever it is when return_partial_results is set
ToQueue(k) == results[k][1].isFinal \/ return_partial_results
RECURSIVE Queued(_)
Queued(n) ==
    IF n = 0 THEN <<>>
    ELSE IF ToQueue(n) THEN Append(Queued(n - 1), results[n][1]) ELSE Queued(n - 1)

\* C39: the events handed to the plugin so far, followed by the results still in
\* the queue, are exactly the results the callbacks had to queue, in callback
\* order, each once, with is_final and the text as in the callback.
C39_ResultsInCallbackOrder ==
    LET queued == Queued(Len(results))
        handed == Len(speech_events)
    IN  /\ handed + Len(speech_result_queue) = Len(queued)
        /\ \A k \in 1..handed :
               /\ speech_events[k].text = queued[k].transcription
               /\ speech_events[k].type = "FINAL_TRANSCRIPT" <=> queued[k].isFinal
               /\ speech_events[k].type = "INTERIM_TRANSCRIPT" <=> ~ queued[k].isFinal
        /\ \A k \in 1..Len(speech_result_queue) :
               /\ speech_result_queue[k].text = queued[handed + k].transcription
               /\ speech_result_queue[k].is_final = queued[handed + k].isFinal

\* a partial and a final result were called back, a failure made the wrapper
\* reconnect while the final one was in the queue, and both were handed over
C39_Witness ==
    /\ return_partial_results
    /\ failures >= 1
    /\ Len(results) = 2
    /\ ~ results[1][1].isFinal
    /\ results[2][1].isFinal
    /\ speech_result_queue = <<>>
    /\ Len(speech_events) = 2
    /\ speech_events[1].type = "INTERIM_TRANSCRIPT"
    /\ speech_events[2].type = "FINAL_TRANSCRIPT"

\* the chunks leave the queue in the order they were added
SentInOrder ==
    [k \in 1..Len(sent_audio) |-> sent_audio[k].audio_bytes] \o audio_bytes_queue
        = [k \in 1..added |-> k]

\* C40: every send_data call was made on the client held, after the connect
\* message of that client and while it was not closed; the chunks are sent in
\* the order they were added and the others wait in the queue.
C40_SendOnlyWhenConnected ==
    /\ \A k \in 1..Len(sent_audio) :
           /\ ~ sent_audio[k].close_flag
           /\ sent_audio[k].connect_message
    /\ SentInOrder
====
